---- MODULE Spec2Model ----
(***************************************************************************)
(* Model of the meshtastic-message-relay core: the connection drivers      *)
(* (internal/connection: serial, TCP, MQTT), their bounded messages        *)
(* channel, and the relay service (internal/relay/service.go) with its     *)
(* filter, its sinks and its start / stop / cancel lifecycle.              *)
(***************************************************************************)
EXTENDS Integers, Sequences, FiniteSets, TLC

(***************************************************************************)
(* Bounds of the model.                                                    *)
(***************************************************************************)
\* Packet frames the radio / broker delivers in one run.
MaxPackets == 3
\* Capacity of the messages channel in the scaled specifications.
ModelCap == 2
\* Successful Connect calls a host makes on one driver instance.
MaxConnects == 2
\* Packets published beyond the channel capacity in SpecBackpressure.
MaxOverflow == 2
\* Longest list per filter dimension in SpecFilter.
MaxList == 2
\* Most small frames written to one stream in SpecFramer.
MaxFrames == 2
\* Most SyncToMagic calls on one framer in SpecFramer.
MaxResyncs == 1

(***************************************************************************)
(* Program constants.                                                      *)
(***************************************************************************)
\* make(chan *message.Packet, 100)
ChanCapacity == 100
\* The framing constants of pkg/meshtastic.
Magic1 == 148
Magic2 == 195
MaxPacketSize == 512
HeaderSize == 4

PortNumTextMessage == 1
PortNumPosition == 3
PortNumNodeInfo == 4
PortNumRouting == 5
PortNumWaypoint == 8
PortNumTelemetry == 67
PortNumTraceroute == 70
PortNumNeighborInfo == 71

(***************************************************************************)
(* message.PortNum.String                                                  *)
(***************************************************************************)
PortNumString(p) ==
    CASE p = PortNumTextMessage -> "TEXT_MESSAGE_APP"
      [] p = PortNumPosition -> "POSITION_APP"
      [] p = PortNumNodeInfo -> "NODEINFO_APP"
      [] p = PortNumRouting -> "ROUTING_APP"
      [] p = PortNumWaypoint -> "WAYPOINT_APP"
      [] p = PortNumTelemetry -> "TELEMETRY_APP"
      [] p = PortNumTraceroute -> "TRACEROUTE_APP"
      [] p = PortNumNeighborInfo -> "NEIGHBORINFO_APP"
      [] OTHER -> "UNKNOWN_APP"

(***************************************************************************)
(* The filter: Service.shouldRelay.  Each dimension is the code's loop     *)
(* "for _, t := range list { if t == x { found = true; break } }".         *)
(***************************************************************************)
RECURSIVE FoundIn(_, _, _)
FoundIn(list, x, i) ==
    IF i > Len(list) THEN FALSE
    ELSE IF list[i] = x THEN TRUE
    ELSE FoundIn(list, x, i + 1)

\* Mutant of shouldRelay: the node-id dimension is skipped.
shouldRelay_NoNodeCheck(filters, msg) ==
    IF Len(filters.MessageTypes) > 0
          /\ ~FoundIn(filters.MessageTypes, PortNumString(msg.PortNum), 1)
    THEN FALSE
    ELSE IF Len(filters.Channels) > 0 /\ ~FoundIn(filters.Channels, msg.Channel, 1)
    THEN FALSE
    ELSE TRUE

shouldRelay(filters, msg) ==
    IF Len(filters.MessageTypes) > 0
          /\ ~FoundIn(filters.MessageTypes, PortNumString(msg.PortNum), 1)
    THEN FALSE
    ELSE IF Len(filters.NodeIDs) > 0 /\ ~FoundIn(filters.NodeIDs, msg.From, 1)
    THEN FALSE
    ELSE IF Len(filters.Channels) > 0 /\ ~FoundIn(filters.Channels, msg.Channel, 1)
    THEN FALSE
    ELSE TRUE

(***************************************************************************)
(* State.                                                                  *)
(***************************************************************************)
VARIABLES
    cfg,         \* config.Config: connection type, filters, outputs
    capacity,    \* capacity of the driver's messages channel
    cancelled,   \* the context handed to Start / Connect has been cancelled
    drv,         \* the connection driver (Serial / TCP / MQTT struct)
    nextId,      \* sequence number of the next packet the driver produces
    dropped,     \* ids of the packets dropped at a full channel
    lastCall,    \* the driver API call that returned last
    running,     \* Service.running
    stats,       \* Service.stats
    connection,  \* Service.connection: "nil" or "conn"
    outputs,     \* Service.outputs: indices into cfg.outputs
    loop,        \* the relayLoop goroutine
    sinkLog,     \* per configured output: the calls made on its instance
    taken,       \* packets received from the messages channel, in order
    relayed,     \* ids that passed the filter, in order
    lastStart,   \* result of the last Start call
    stopped,     \* a Stop call has shut the service down
    traffic,     \* the packet shapes the mesh produces in this run
    budget,      \* the number of packets the mesh produces in this run
    frm,         \* a StreamFramer and the position of its ReadPacket call
    io,          \* the byte stream under the framer and what was written to it
    dec,         \* the bytes handed to the protobuf decoder and what it returned
    rd,          \* the read loop's view: node database and the log of what it handled
    sim,         \* the simulated device: its fields, its goroutines and the frames it wrote
    mq,          \* MQTT parsePortNum: its arguments and what its calls returned
    file,        \* the file sink and the files on disk
    apprise      \* the Apprise sink and the HTTP requests it issued

vars == << cfg, capacity, cancelled, drv, nextId, dropped, lastCall, running,
           stats, connection, outputs, loop, sinkLog, taken, relayed,
           lastStart, stopped, traffic, budget, frm, io, dec, rd, sim,
           mq, file, apprise >>

\* What no step of the service or of a driver changes: the run's
\* environment, the stand-alone framer and the stand-alone decoder.
envVars == << cfg, capacity, traffic, budget, frm, io, dec, rd, sim,
             mq, file, apprise >>
relayVars == << cfg, capacity, traffic, budget, cancelled >>
drvVars == << drv, nextId, dropped, lastCall >>
svcVars == << running, stats, connection, outputs, loop, sinkLog, taken,
              relayed, lastStart, stopped >>

Readers == 1..MaxConnects

NoFilter == [MessageTypes |-> <<>>, NodeIDs |-> <<>>, Channels |-> <<>>]

NoMsg == [id |-> 0, From |-> 0, PortNum |-> 0, Channel |-> 0]

\* NewStreamFramer: an empty read buffer, no call in progress.
NewStreamFramer ==
    [ buf |-> <<>>,        \* readBuffer[0:readPos]
      pc |-> "idle",       \* "idle", or "run" while ReadPacket executes
      retried |-> FALSE,   \* this call met a temporary error with bytes buffered
      last |-> "none",     \* what the last call returned
      removed |-> 0,       \* bytes taken out of the read buffer so far
      resumed |-> FALSE,   \* some call returned a payload after such an error
      calls |-> <<>> ]     \* the calls that returned a payload or a framing error

\* No bytes were handed to the decoder.
NoDecode == [data |-> <<>>, ref |-> <<>>, kind |-> "none", pc |-> "idle",
             res |-> <<>>, refRes |-> <<>>]

\* No simulated device.
NoDevice == [running |-> FALSE]

\* A read loop that has handled nothing.
NoReadLoop == [called |-> FALSE, nodeDB |-> <<>>, myInfo |-> <<>>,
               log |-> <<>>, waits |-> 0]

\* parsePortNum was not called; no file sink; no Apprise sink.
NoParse == [called |-> FALSE]
NoFile == [open |-> FALSE]
NoApprise == [requests |-> <<>>]

\* A stream nothing was written to.
NoStream == [garbage |-> <<>>, wire |-> <<>>, script |-> <<>>,
             writeLog |-> <<>>, wrote |-> <<>>]

(***************************************************************************)
(* Connection drivers.  NewSerial / NewTCP / NewMQTT: the struct after     *)
(* construction.  readers[r] is the position of the read loop spawned by   *)
(* the r-th successful Connect (for MQTT, readers[1] is the message        *)
(* callback); stale[r] records that the stopCh this loop last saw has been *)
(* closed while a later Connect installed a fresh one.                     *)
(***************************************************************************)
NewDriver ==
    [ connected |-> FALSE,      \* s.connected
      port |-> FALSE,           \* s.port / t.conn is open
      stopClosed |-> FALSE,     \* the current s.stopCh is closed
      queue |-> <<>>,           \* buffered content of s.messages
      closed |-> FALSE,         \* s.messages is closed
      closeCalls |-> 0,         \* close(s.messages) executions
      panicked |-> FALSE,       \* a goroutine panicked: the process is dead
      readers |-> [r \in Readers |-> "none"],
      stale |-> [r \in Readers |-> FALSE],
      connects |-> 0,           \* successful Connect calls
      clientUp |-> FALSE,       \* MQTT: client.IsConnected()
      onConnect |-> "none",     \* MQTT: position of the onConnect callback
      subscribed |-> FALSE,     \* MQTT: the topic subscription is active
      disconnected |-> FALSE ]  \* MQTT: client.Disconnect was called

IsStream(kind) == kind \in {"serial", "tcp"}

\* IsConnected()
IsConnected(d, kind) ==
    IF kind = "mqtt" THEN d.connected /\ d.connects > 0 /\ d.clientUp
    ELSE d.connected

\* Connect without the "already connected" check.
Connect_NoGuard(d, kind, ok) ==
    IF ~ok THEN d
    ELSE IF kind = "mqtt"
    THEN [d EXCEPT !.clientUp = TRUE, !.connected = TRUE, !.stopClosed = FALSE,
                   !.onConnect = "pending", !.connects = d.connects + 1]
    ELSE [d EXCEPT !.port = TRUE, !.connected = TRUE, !.stopClosed = FALSE,
                   !.readers[d.connects + 1] = "select",
                   !.connects = d.connects + 1]

\* Connect: ok is whether opening the transport succeeded.
Connect(d, kind, ok) ==
    IF d.connected THEN d
    ELSE IF ~ok THEN d
    ELSE IF kind = "mqtt"
    THEN [d EXCEPT !.clientUp = TRUE, !.connected = TRUE, !.stopClosed = FALSE,
                   !.onConnect = "pending", !.connects = d.connects + 1]
    ELSE [d EXCEPT !.port = TRUE, !.connected = TRUE, !.stopClosed = FALSE,
                   !.readers[d.connects + 1] = "select",
                   !.connects = d.connects + 1]

\* close(s.messages): closing a closed channel panics.
CloseMessages(d) ==
    IF d.closed
    THEN [d EXCEPT !.closeCalls = d.closeCalls + 1, !.panicked = TRUE]
    ELSE [d EXCEPT !.closeCalls = d.closeCalls + 1, !.closed = TRUE]

\* Close
Close(d, kind) ==
    IF ~d.connected THEN d
    ELSE IF d.stopClosed THEN [d EXCEPT !.panicked = TRUE]
    ELSE LET d1 == [d EXCEPT !.stopClosed = TRUE, !.connected = FALSE,
                             !.stale = [r \in Readers |->
                                          d.stale[r]
                                            \/ d.readers[r] \in {"select", "reading"}]]
             d2 == IF kind = "mqtt"
                   THEN IF d1.clientUp
                        THEN [d1 EXCEPT !.clientUp = FALSE, !.disconnected = TRUE,
                                        !.subscribed = FALSE]
                        ELSE d1
                   ELSE [d1 EXCEPT !.port = FALSE]
         IN CloseMessages(d2)

\* Mutant of Publish: a full channel evicts its oldest packet.
Publish_DropOldest(d, pkt, cap) ==
    IF d.closed THEN [d EXCEPT !.panicked = TRUE]
    ELSE IF Len(d.queue) < cap THEN [d EXCEPT !.queue = Append(d.queue, pkt)]
    ELSE [d EXCEPT !.queue = Append(Tail(d.queue), pkt)]

\* Mutant of Publish: the packet is put in front of the buffered ones.
Publish_Front(d, pkt, cap) ==
    IF d.closed THEN [d EXCEPT !.panicked = TRUE]
    ELSE IF Len(d.queue) < cap THEN [d EXCEPT !.queue = << pkt >> \o d.queue]
    ELSE d

\* The non-blocking publish "select { case s.messages <- packet: default: }":
\* a send on a closed channel panics, a full channel takes the default branch.
Publish(d, pkt, cap) ==
    IF d.closed THEN [d EXCEPT !.panicked = TRUE]
    ELSE IF Len(d.queue) < cap THEN [d EXCEPT !.queue = Append(d.queue, pkt)]
    ELSE d

(***************************************************************************)
(* Driver tasks.  Every step is disabled once a goroutine has panicked.    *)
(***************************************************************************)
Alive == ~drv.panicked

\* A packet of shape k produced as the nextId-th packet of the connection.
MkPacket(k, id) ==
    [id |-> id, From |-> k.From, PortNum |-> k.PortNum, Channel |-> k.Channel]

\* The publish at the end of handleFromRadio / messageHandler, with the
\* bookkeeping of which packet was produced and whether it was dropped.
PublishNext(d, k) ==
    /\ nextId <= budget
    /\ drv' = Publish(d, MkPacket(k, nextId), capacity)
    /\ nextId' = nextId + 1
    /\ dropped' = IF ~d.closed /\ Len(d.queue) >= capacity
                  THEN dropped \cup {nextId} ELSE dropped

\* readLoop: one evaluation of its select.  A ready case (context done, stop
\* channel closed) wins over default; s.stopCh is read without the lock, so a
\* loop that outlived a Close may see the closed channel or the fresh one.
ReaderPoll(r) ==
    /\ Alive /\ IsStream(cfg.connType)
    /\ drv.readers[r] = "select"
    /\ \/ /\ cancelled \/ drv.stopClosed \/ drv.stale[r]
          /\ drv' = [drv EXCEPT !.readers[r] = "done"]
       \/ /\ ~cancelled /\ ~drv.stopClosed
          /\ drv' = [drv EXCEPT !.readers[r] = "reading"]
    /\ UNCHANGED << nextId, dropped, lastCall, cancelled >>
    /\ UNCHANGED envVars /\ UNCHANGED svcVars

\* readPacket: the read timed out, failed, or did not decode to a Packet.
ReaderIdle(r) ==
    /\ Alive /\ IsStream(cfg.connType)
    /\ drv.readers[r] = "reading"
    /\ drv' = [drv EXCEPT !.readers[r] = "select"]
    /\ UNCHANGED << nextId, dropped, lastCall, cancelled >>
    /\ UNCHANGED envVars /\ UNCHANGED svcVars

\* readPacket + handleFromRadio: a FromRadio frame carrying a Packet.
ReaderPacket(r) ==
    /\ Alive /\ IsStream(cfg.connType)
    /\ drv.readers[r] = "reading"
    /\ \E k \in traffic : PublishNext([drv EXCEPT !.readers[r] = "select"], k)
    /\ UNCHANGED << lastCall, cancelled >>
    /\ UNCHANGED envVars /\ UNCHANGED svcVars

\* MQTT onConnect, first half: client.Subscribe and the wait on its token.
MqttSubscribe ==
    /\ Alive /\ cfg.connType = "mqtt"
    /\ drv.onConnect = "pending"
    /\ \/ drv' = [drv EXCEPT !.onConnect = "none"]
       \/ /\ drv.clientUp
          /\ drv' = [drv EXCEPT !.onConnect = "marking", !.subscribed = TRUE]
    /\ UNCHANGED << nextId, dropped, lastCall, cancelled >>
    /\ UNCHANGED envVars /\ UNCHANGED svcVars

\* MQTT onConnect, second half: m.connected = true under the lock.
MqttMarkConnected ==
    /\ Alive /\ cfg.connType = "mqtt"
    /\ drv.onConnect = "marking"
    /\ drv' = [drv EXCEPT !.onConnect = "none", !.connected = TRUE]
    /\ lastCall' = "callback"
    /\ UNCHANGED << nextId, dropped, cancelled >>
    /\ UNCHANGED envVars /\ UNCHANGED svcVars

\* MQTT onConnectionLost
MqttLost ==
    /\ Alive /\ cfg.connType = "mqtt"
    /\ drv.clientUp
    /\ drv' = [drv EXCEPT !.clientUp = FALSE, !.connected = FALSE,
                          !.subscribed = FALSE]
    /\ lastCall' = "callback"
    /\ UNCHANGED << nextId, dropped, cancelled >>
    /\ UNCHANGED envVars /\ UNCHANGED svcVars

\* The client's auto-reconnect (SetAutoReconnect(true)) after a lost
\* connection; it runs onConnect again.
MqttReconnect ==
    /\ Alive /\ cfg.connType = "mqtt"
    /\ ~drv.clientUp /\ ~drv.disconnected /\ drv.connects > 0
    /\ drv' = [drv EXCEPT !.clientUp = TRUE, !.onConnect = "pending"]
    /\ UNCHANGED << nextId, dropped, lastCall, cancelled >>
    /\ UNCHANGED envVars /\ UNCHANGED svcVars

\* The client invokes messageHandler for a message on the subscribed topic.
MqttHandle ==
    /\ Alive /\ cfg.connType = "mqtt"
    /\ drv.clientUp /\ drv.subscribed
    /\ drv.readers[1] = "none"
    /\ nextId <= budget
    /\ drv' = [drv EXCEPT !.readers[1] = "reading"]
    /\ UNCHANGED << nextId, dropped, lastCall, cancelled >>
    /\ UNCHANGED envVars /\ UNCHANGED svcVars

\* messageHandler: parseMessage, then the non-blocking publish.
MqttDeliver ==
    /\ Alive /\ cfg.connType = "mqtt"
    /\ drv.readers[1] = "reading"
    /\ \E k \in traffic : PublishNext([drv EXCEPT !.readers[1] = "none"], k)
    /\ UNCHANGED << lastCall, cancelled >>
    /\ UNCHANGED envVars /\ UNCHANGED svcVars

\* The context is cancelled (runRelay's cancel()).
Cancel ==
    /\ Alive /\ ~cancelled
    /\ cancelled' = TRUE
    /\ UNCHANGED drvVars /\ UNCHANGED envVars /\ UNCHANGED svcVars

DriverStep ==
    \/ \E r \in Readers : ReaderPoll(r)
    \/ \E r \in Readers : ReaderIdle(r)
    \/ \E r \in Readers : ReaderPacket(r)
    \/ MqttSubscribe
    \/ MqttMarkConnected
    \/ MqttLost
    \/ MqttReconnect
    \/ MqttHandle
    \/ MqttDeliver

(***************************************************************************)
(* Sinks.  An entry of cfg.outputs is [Enabled, kind]: kind "ok" is a sink *)
(* whose Send always succeeds, "fail" one whose Send always fails, "flaky" *)
(* one whose Send may do either, "bad" one whose constructor fails.        *)
(* sinkLog[k] lists the calls made on the instance built from entry k.     *)
(***************************************************************************)
SendResults(kind) ==
    CASE kind = "ok" -> {TRUE}
      [] kind = "fail" -> {FALSE}
      [] OTHER -> BOOLEAN

EvNew == [op |-> "new", id |-> 0, ok |-> TRUE]
EvClose == [op |-> "close", id |-> 0, ok |-> TRUE]
EvSend(id, ok) == [op |-> "send", id |-> id, ok |-> ok]

Range(f) == {f[i] : i \in DOMAIN f}

\* initOutputs: the sinks built (in order) and whether it returned an error.
RECURSIVE BuildOutputs(_, _, _)
BuildOutputs(outCfgs, i, acc) ==
    IF i > Len(outCfgs) THEN [outs |-> acc, err |-> (Len(acc) = 0)]
    ELSE IF ~outCfgs[i].Enabled THEN BuildOutputs(outCfgs, i + 1, acc)
    ELSE IF outCfgs[i].kind = "bad" THEN [outs |-> acc, err |-> TRUE]
    ELSE BuildOutputs(outCfgs, i + 1, Append(acc, i))

\* The log after the constructors of the sinks in outs ran.
LogNew(log, outs) ==
    [k \in DOMAIN log |-> IF k \in Range(outs) THEN Append(log[k], EvNew)
                          ELSE log[k]]

\* closeOutputs
closeOutputs(log, outs) ==
    [k \in DOMAIN log |-> IF k \in Range(outs) THEN Append(log[k], EvClose)
                          ELSE log[k]]

(***************************************************************************)
(* Relay service.                                                          *)
(***************************************************************************)
ZeroStats == [received |-> 0, sent |-> 0, filtered |-> 0, errors |-> 0]

IdleLoop == [pc |-> "none", msg |-> NoMsg, outs |-> <<>>, idx |-> 0]

KnownConnType(t) == t \in {"serial", "tcp", "mqtt"}

\* Start past the running check: running is set, then initOutputs,
\* initConnection, Connect and the spawn of relayLoop.
StartFresh(connectOk) ==
    LET b == BuildOutputs(cfg.outputs, 1, <<>>)
        built == LogNew(sinkLog, b.outs)
    IN /\ running' = TRUE
       /\ outputs' = b.outs
       /\ UNCHANGED << stats, taken, relayed, stopped, cancelled,
                       nextId, dropped, lastCall >>
       /\ IF b.err
          THEN /\ lastStart' = "err_outputs"
               /\ sinkLog' = built
               /\ UNCHANGED << connection, drv, loop >>
          ELSE IF ~KnownConnType(cfg.connType)
          THEN /\ lastStart' = "err_connection"
               /\ sinkLog' = closeOutputs(built, b.outs)
               /\ UNCHANGED << connection, drv, loop >>
          ELSE IF ~connectOk
          THEN /\ lastStart' = "err_connect"
               /\ connection' = "conn"
               /\ sinkLog' = closeOutputs(built, b.outs)
               /\ UNCHANGED << drv, loop >>
          ELSE /\ lastStart' = "ok"
               /\ connection' = "conn"
               /\ drv' = Connect(drv, cfg.connType, TRUE)
               /\ sinkLog' = built
               /\ loop' = [IdleLoop EXCEPT !.pc = "select"]

\* Start with the "already running" check removed.
Start_NoRunningCheck ==
    /\ Alive /\ ~stopped
    /\ \E connectOk \in BOOLEAN : StartFresh(connectOk)
    /\ UNCHANGED envVars

\* Start.  A Service is started at most once after it was stopped: runRelay
\* builds one Service, calls Start once and Stop once.
Start ==
    /\ Alive /\ ~stopped
    /\ \E connectOk \in BOOLEAN :
         IF running
         THEN /\ lastStart' = "already"
              /\ UNCHANGED << running, stats, connection, outputs, loop,
                              sinkLog, taken, relayed, stopped >>
              /\ UNCHANGED << drvVars, cancelled >>
         ELSE StartFresh(connectOk)
    /\ UNCHANGED envVars

\* Stop: the whole call runs under s.mu.
Stop ==
    /\ Alive
    /\ IF ~running
       THEN UNCHANGED << svcVars, drvVars >>
       ELSE LET d == IF connection = "conn" THEN Close(drv, cfg.connType) ELSE drv
            IN /\ running' = FALSE
               /\ stopped' = TRUE
               /\ drv' = d
               /\ lastCall' = IF connection = "conn" THEN "close" ELSE lastCall
               /\ sinkLog' = IF d.panicked THEN sinkLog
                             ELSE closeOutputs(sinkLog, outputs)
               /\ UNCHANGED << stats, connection, outputs, loop, taken, relayed,
                               lastStart, nextId, dropped >>
    /\ UNCHANGED << envVars, cancelled >>

\* relayLoop, "case msg, ok := <-msgChan" with ok true: MessagesReceived++.
RelayRecv ==
    /\ Alive /\ loop.pc = "select"
    /\ Len(drv.queue) > 0
    /\ drv' = [drv EXCEPT !.queue = Tail(drv.queue)]
    /\ stats' = [stats EXCEPT !.received = stats.received + 1]
    /\ taken' = Append(taken, Head(drv.queue))
    /\ loop' = [loop EXCEPT !.pc = "filter", !.msg = Head(drv.queue)]
    /\ UNCHANGED << running, connection, outputs, sinkLog, relayed, lastStart,
                    stopped, nextId, dropped, lastCall, cancelled >>
    /\ UNCHANGED envVars

\* relayLoop returns: the context is done, or the channel is closed and drained.
RelayExit ==
    /\ Alive /\ loop.pc = "select"
    /\ cancelled \/ (drv.closed /\ Len(drv.queue) = 0)
    /\ loop' = [loop EXCEPT !.pc = "done"]
    /\ UNCHANGED << running, stats, connection, outputs, sinkLog, taken,
                    relayed, lastStart, stopped, cancelled >>
    /\ UNCHANGED drvVars /\ UNCHANGED envVars

\* Mutant of FilterOutcome: the "continue" after MessagesFiltered++ is missing.
FilterOutcome_NoContinue(lp, st, accept, outs) ==
    [loop |-> [lp EXCEPT !.pc = "send", !.outs = outs, !.idx = 1],
     stats |-> IF accept THEN st ELSE [st EXCEPT !.filtered = st.filtered + 1]]

\* relayLoop: "if !s.shouldRelay(msg) { MessagesFiltered++; continue }",
\* else sendToOutputs starts ranging over s.outputs.
FilterOutcome(lp, st, accept, outs) ==
    IF accept
    THEN [loop |-> [lp EXCEPT !.pc = "send", !.outs = outs, !.idx = 1],
          stats |-> st]
    ELSE [loop |-> [lp EXCEPT !.pc = "select"],
          stats |-> [st EXCEPT !.filtered = st.filtered + 1]]

RelayFilter ==
    /\ Alive /\ loop.pc = "filter"
    /\ LET accept == shouldRelay(cfg.filters, loop.msg)
           out == FilterOutcome(loop, stats, accept, outputs)
       IN /\ loop' = out.loop
          /\ stats' = out.stats
          /\ relayed' = IF accept THEN Append(relayed, loop.msg.id) ELSE relayed
    /\ UNCHANGED << running, connection, outputs, sinkLog, taken, lastStart,
                    stopped, cancelled >>
    /\ UNCHANGED drvVars /\ UNCHANGED envVars

\* Mutant of CountSend: a failed Send is counted as sent.
CountSend_AlwaysSent(st, ok) == [st EXCEPT !.sent = st.sent + 1]

\* sendToOutputs: the counter one Send result increments.
CountSend(st, ok) ==
    IF ok THEN [st EXCEPT !.sent = st.sent + 1]
    ELSE [st EXCEPT !.errors = st.errors + 1]

\* Mutant of AfterSend: a failed Send ends the range loop.
AfterSend_AbortOnFailure(idx, ok, n) == IF ok THEN idx + 1 ELSE n + 1

\* sendToOutputs: the index the range loop visits after a Send returned.
AfterSend(idx, ok, n) == idx + 1

\* sendToOutputs: one iteration, out.Send(ctx, msg) and its counter.
RelaySend ==
    /\ Alive /\ loop.pc = "send"
    /\ LET k == loop.outs[loop.idx]
           n == Len(loop.outs)
       IN \E ok \in SendResults(cfg.outputs[k].kind) :
            /\ sinkLog' = [sinkLog EXCEPT ![k] = Append(@, EvSend(loop.msg.id, ok))]
            /\ stats' = CountSend(stats, ok)
            /\ loop' = IF AfterSend(loop.idx, ok, n) > n
                       THEN [loop EXCEPT !.pc = "select", !.idx = 0]
                       ELSE [loop EXCEPT !.idx = AfterSend(loop.idx, ok, n)]
    /\ UNCHANGED << running, connection, outputs, taken, relayed, lastStart,
                    stopped, cancelled >>
    /\ UNCHANGED drvVars /\ UNCHANGED envVars

ServiceStep ==
    \/ Start
    \/ Stop
    \/ RelayRecv
    \/ RelayExit
    \/ RelayFilter
    \/ RelaySend

(***************************************************************************)
(* A host that drives one driver instance directly, as the driver tests do.*)
(***************************************************************************)
HostConnect ==
    /\ Alive
    /\ drv.connected \/ drv.connects < MaxConnects
    /\ \E ok \in BOOLEAN : drv' = Connect(drv, cfg.connType, ok)
    /\ lastCall' = IF drv.connected THEN "connect_again" ELSE "connect"
    /\ UNCHANGED << nextId, dropped, cancelled >>
    /\ UNCHANGED envVars /\ UNCHANGED svcVars

HostClose ==
    /\ Alive
    /\ drv' = Close(drv, cfg.connType)
    /\ lastCall' = "close"
    /\ UNCHANGED << nextId, dropped, cancelled >>
    /\ UNCHANGED envVars /\ UNCHANGED svcVars

\* The host receives from Messages().
HostRecv ==
    /\ Alive
    /\ Len(drv.queue) > 0
    /\ drv' = [drv EXCEPT !.queue = Tail(drv.queue)]
    /\ taken' = Append(taken, Head(drv.queue))
    /\ UNCHANGED << running, stats, connection, outputs, loop, sinkLog,
                    relayed, lastStart, stopped >>
    /\ UNCHANGED << nextId, dropped, lastCall, cancelled >>
    /\ UNCHANGED envVars

(***************************************************************************)
(* Configurations and specifications.                                      *)
(***************************************************************************)
Sink(kind) == [Enabled |-> TRUE, kind |-> kind]
Disabled(kind) == [Enabled |-> FALSE, kind |-> kind]

OutputChoices ==
    { << Sink("ok"), Sink("fail") >>,
      << Sink("fail"), Disabled("ok"), Sink("flaky") >>,
      << Sink("ok"), Sink("bad") >> }

FilterChoices ==
    { NoFilter,
      [MessageTypes |-> << "TEXT_MESSAGE_APP" >>, NodeIDs |-> << 170 >>,
       Channels |-> <<>>] }

TrafficShapes ==
    { [From |-> 170, PortNum |-> PortNumTextMessage, Channel |-> 0],
      [From |-> 187, PortNum |-> PortNumPosition, Channel |-> 1] }

\* Without a filter every packet takes the same path through the relay, so one
\* shape stands for all; with a filter the mesh sends both shapes.
TrafficFor(filters) ==
    IF filters = NoFilter
    THEN {[From |-> 170, PortNum |-> PortNumTextMessage, Channel |-> 0]}
    ELSE TrafficShapes

InitState ==
    /\ cancelled = FALSE
    /\ drv = NewDriver
    /\ nextId = 1
    /\ dropped = {}
    /\ lastCall = "none"
    /\ running = FALSE
    /\ stats = ZeroStats
    /\ connection = "nil"
    /\ outputs = <<>>
    /\ loop = IdleLoop
    /\ sinkLog = [k \in DOMAIN cfg.outputs |-> <<>>]
    /\ taken = <<>>
    /\ relayed = <<>>
    /\ lastStart = "none"
    /\ stopped = FALSE

\* The relay service over each driver.
Init ==
    /\ cfg \in [connType : {"serial", "tcp", "mqtt", "bogus"},
                filters : FilterChoices,
                outputs : OutputChoices]
    /\ capacity = ModelCap
    /\ traffic = TrafficFor(cfg.filters)
    /\ budget = MaxPackets
    /\ frm = NewStreamFramer
    /\ mq = NoParse /\ file = NoFile /\ apprise = NoApprise
    /\ sim = NoDevice
    /\ rd = NoReadLoop
    /\ dec = NoDecode
    /\ io = NoStream
    /\ InitState

Next == ServiceStep \/ DriverStep \/ Cancel

Spec == Init /\ [][Next]_vars

\* One driver instance used directly through its API.
InitDriver ==
    /\ cfg \in [connType : {"serial", "tcp", "mqtt"},
                filters : {NoFilter},
                outputs : {<< Sink("ok") >>}]
    /\ capacity = ModelCap
    /\ traffic = {[From |-> 170, PortNum |-> PortNumTextMessage, Channel |-> 0]}
    /\ budget = MaxPackets
    /\ frm = NewStreamFramer
    /\ mq = NoParse /\ file = NoFile /\ apprise = NoApprise
    /\ sim = NoDevice
    /\ rd = NoReadLoop
    /\ dec = NoDecode
    /\ io = NoStream
    /\ InitState

NextDriver == HostConnect \/ HostClose \/ HostRecv \/ DriverStep \/ Cancel

SpecDriver == InitDriver /\ [][NextDriver]_vars

\* The state right after a successful Start: the sinks are built, the driver
\* is connected and the relay loop waits in its select.
Started ==
    /\ cancelled = FALSE
    /\ drv = Connect(NewDriver, cfg.connType, TRUE)
    /\ nextId = 1
    /\ dropped = {}
    /\ lastCall = "none"
    /\ running = TRUE
    /\ stats = ZeroStats
    /\ connection = "conn"
    /\ outputs = BuildOutputs(cfg.outputs, 1, <<>>).outs
    /\ loop = [IdleLoop EXCEPT !.pc = "select"]
    /\ sinkLog = LogNew([k \in DOMAIN cfg.outputs |-> <<>>], outputs)
    /\ taken = <<>>
    /\ relayed = <<>>
    /\ lastStart = "ok"
    /\ stopped = FALSE

ReaderStep ==
    \/ \E r \in Readers : ReaderPoll(r)
    \/ \E r \in Readers : ReaderIdle(r)
    \/ \E r \in Readers : ReaderPacket(r)

\* The filter on every configuration up to MaxList entries per dimension and
\* every packet shape: a started service relays one packet.
SeqsUpTo(S, n) == UNION {[1..m -> S] : m \in 0..n}

FilterSpace ==
    [MessageTypes : SeqsUpTo({"TEXT_MESSAGE_APP", "UNKNOWN_APP"}, MaxList),
     NodeIDs : SeqsUpTo({170, 187}, MaxList),
     Channels : SeqsUpTo({0, 1}, MaxList)]

PacketSpace ==
    [From : {170, 187, 204},
     PortNum : {0, PortNumTextMessage, PortNumPosition, 6},
     Channel : {0, 1, 2}]

InitFilter ==
    /\ cfg \in [connType : {"serial"},
                filters : FilterSpace,
                outputs : {<< Sink("ok") >>}]
    /\ capacity = ModelCap
    /\ traffic = PacketSpace
    /\ budget = 1
    /\ frm = NewStreamFramer
    /\ mq = NoParse /\ file = NoFile /\ apprise = NoApprise
    /\ sim = NoDevice
    /\ rd = NoReadLoop
    /\ dec = NoDecode
    /\ io = NoStream
    /\ Started

NextFilter == ReaderStep \/ RelayRecv \/ RelayFilter \/ RelaySend

SpecFilter == InitFilter /\ [][NextFilter]_vars

\* The messages channel at its real capacity: a started service whose mesh
\* produces more packets than the channel holds.
InitBackpressure ==
    /\ cfg \in [connType : {"serial", "tcp"},
                filters : {NoFilter},
                outputs : {<< Sink("ok") >>}]
    /\ capacity = ChanCapacity
    /\ traffic = {[From |-> 170, PortNum |-> PortNumTextMessage, Channel |-> 0]}
    /\ budget = ChanCapacity + MaxOverflow
    /\ frm = NewStreamFramer
    /\ mq = NoParse /\ file = NoFile /\ apprise = NoApprise
    /\ sim = NoDevice
    /\ rd = NoReadLoop
    /\ dec = NoDecode
    /\ io = NoStream
    /\ Started

NextBackpressure == ReaderStep \/ RelayRecv \/ RelayFilter \/ RelaySend

SpecBackpressure == InitBackpressure /\ [][NextBackpressure]_vars

\* The host fires the cancel token and never calls Stop.  The goroutines are
\* scheduled fairly: a step that stays possible is eventually taken.
InitCancel ==
    /\ cfg \in [connType : {"serial", "tcp", "mqtt"},
                filters : {NoFilter},
                outputs : {<< Sink("ok"), Sink("fail") >>}]
    /\ capacity = ModelCap
    /\ traffic = {[From |-> 170, PortNum |-> PortNumTextMessage, Channel |-> 0]}
    /\ budget = MaxPackets
    /\ frm = NewStreamFramer
    /\ mq = NoParse /\ file = NoFile /\ apprise = NoApprise
    /\ sim = NoDevice
    /\ rd = NoReadLoop
    /\ dec = NoDecode
    /\ io = NoStream
    /\ InitState

NextCancel ==
    Start \/ RelayRecv \/ RelayExit \/ RelayFilter \/ RelaySend \/ DriverStep \/ Cancel

SpecCancel == InitCancel /\ [][NextCancel]_vars /\ WF_vars(NextCancel)

(***************************************************************************)
(* Reading the sink logs.                                                  *)
(***************************************************************************)
Sinks == DOMAIN sinkLog

\* Positions of the Send calls in sink k's log.
SendIdx(k) == {i \in DOMAIN sinkLog[k] : sinkLog[k][i].op = "send"}

\* Positions of the Send calls made on sink k for packet id.
SendsFor(k, id) == {i \in SendIdx(k) : sinkLog[k][i].id = id}

\* Number of Send calls, over all sinks, that returned success (b) or failed.
NumSends(b) ==
    Cardinality(UNION {{<< k, i >> : i \in {j \in SendIdx(k) : sinkLog[k][j].ok = b}}
                          : k \in Sinks})

\* The relay loop is inside sendToOutputs for packet id.
Dispatching(id) == loop.pc = "send" /\ loop.msg.id = id

\* Sink position p of s.outputs has had its Send for packet id, or the range
\* loop for that packet has not reached it yet.
Served(p, id) ==
    IF Dispatching(id) /\ p >= loop.idx
    THEN SendsFor(outputs[p], id) = {}
    ELSE Cardinality(SendsFor(outputs[p], id)) = 1

AlwaysOkAlwaysFail == << Sink("ok"), Sink("fail") >>

C2_FailureIsolated ==
    /\ loop.pc = "done" => (cancelled \/ drv.closed)
    /\ \A k \in Sinks : \A i \in SendIdx(k) :
          ~sinkLog[k][i].ok =>
             LET id == sinkLog[k][i].id
                 at == CHOOSE n \in DOMAIN relayed : relayed[n] = id
             IN /\ \A p \in DOMAIN outputs : Served(p, id)
                /\ \A n \in DOMAIN relayed :
                      n > at => \A p \in DOMAIN outputs : Served(p, relayed[n])

C2_Witness ==
    /\ cfg.outputs[1] = Sink("fail")
    /\ Cardinality(SendIdx(1)) >= 2
    /\ \E k \in Sinks \ {1} : Cardinality(SendIdx(k)) >= 2
    /\ loop.pc = "select"

(***************************************************************************)
(* C3: a packet the filter rejects reaches no sink; it adds one to         *)
(* received and one to filtered and leaves sent and errors alone.          *)
(***************************************************************************)
C3_RejectedNotSent ==
    LET Rejected == {i \in DOMAIN taken : ~shouldRelay(cfg.filters, taken[i])}
        Pending == IF loop.pc = "filter" /\ ~shouldRelay(cfg.filters, loop.msg)
                   THEN 1 ELSE 0
    IN /\ \A i \in Rejected : \A k \in Sinks : SendsFor(k, taken[i].id) = {}
       /\ stats.received = Len(taken)
       /\ stats.filtered = Cardinality(Rejected) - Pending
       /\ stats.sent + stats.errors = NumSends(TRUE) + NumSends(FALSE)

C3_Witness ==
    /\ stats.filtered >= 1
    /\ stats.sent >= 1
    /\ \E i \in DOMAIN taken :
          /\ ~shouldRelay(cfg.filters, taken[i])
          /\ \E j \in DOMAIN taken : j > i /\ taken[j].id \in Range(relayed)

(***************************************************************************)
(* C5: every sink sees the surviving packets (not dropped at the channel,  *)
(* not rejected by the filter) in the order the connection produced them,  *)
(* and none twice.                                                         *)
(***************************************************************************)
Survivors == (1..(nextId - 1)) \ dropped

Accepts(f, m) ==
    /\ f.MessageTypes = <<>> \/ PortNumString(m.PortNum) \in Range(f.MessageTypes)
    /\ f.NodeIDs = <<>> \/ m.From \in Range(f.NodeIDs)
    /\ f.Channels = <<>> \/ m.Channel \in Range(f.Channels)

C4_FilterSemantics ==
    /\ \A k \in traffic :
          shouldRelay(cfg.filters, MkPacket(k, 1)) <=> Accepts(cfg.filters, MkPacket(k, 1))
    /\ \A i \in DOMAIN taken :
          ~(loop.pc = "filter" /\ loop.msg = taken[i])
          => (taken[i].id \in Range(relayed) <=> Accepts(cfg.filters, taken[i]))

C4_Witness ==
    /\ Len(cfg.filters.MessageTypes) = 2
    /\ Len(cfg.filters.NodeIDs) = 2
    /\ Len(cfg.filters.Channels) = 2
    /\ cfg.filters.NodeIDs[1] # loop.msg.From
    /\ cfg.filters.Channels[1] # loop.msg.Channel
    /\ relayed = << 1 >>
    /\ loop.pc = "send"

(***************************************************************************)
(* C6: publishing never blocks; a packet published to a channel that holds *)
(* capacity (100) packets is dropped.  When more than capacity packets are *)
(* published before the relay loop receives, exactly the capacity earliest *)
(* ones are delivered, and a dropped packet is counted by no statistic.    *)
(***************************************************************************)
Ids(q) == [i \in DOMAIN q |-> q[i].id]

C6_Backpressure ==
    /\ Len(drv.queue) <= ChanCapacity
    /\ Len(taken) + Len(drv.queue) + Cardinality(dropped) = nextId - 1
    /\ \A d \in dropped : Cardinality({s \in Survivors : s < d}) >= ChanCapacity
    /\ Len(taken) = 0 =>
          /\ Ids(drv.queue) = [i \in 1..Len(drv.queue) |-> i]
          /\ dropped = (ChanCapacity + 1)..(nextId - 1)
    /\ dropped = (ChanCapacity + 1)..(nextId - 1) =>
          Ids(taken \o drv.queue) = [i \in 1..(Len(taken) + Len(drv.queue)) |-> i]
    /\ stats.received = Len(taken)
    /\ stats.filtered = 0
    /\ stats.sent + stats.errors = NumSends(TRUE) + NumSends(FALSE)
    /\ stats.sent + stats.errors <= Len(taken)

C6_Witness ==
    /\ nextId - 1 = ChanCapacity + MaxOverflow
    /\ dropped = (ChanCapacity + 1)..(ChanCapacity + MaxOverflow)
    /\ drv.queue = <<>>
    /\ Ids(taken) = [i \in 1..ChanCapacity |-> i]
    /\ loop.pc = "select"
    /\ stats = [received |-> ChanCapacity, sent |-> ChanCapacity,
                filtered |-> 0, errors |-> 0]

(***************************************************************************)
(* C7: over any sequence of connect and close calls on one driver, the     *)
(* close operation on the messages channel is performed at most once and   *)
(* never attempted a second time.                                          *)
(***************************************************************************)
C7_ClosedOnce == drv.closeCalls <= 1

(***************************************************************************)
(* C8: when close returns, whatever state the driver was in, the messages  *)
(* channel is closed and IsConnected reports false.                        *)
(***************************************************************************)
C8_CloseFromAnyState ==
    lastCall = "close" => drv.closed /\ ~IsConnected(drv, cfg.connType)

(***************************************************************************)
(* C9: no sink has Send invoked after its own Close: a sink is closed only *)
(* once the relay loop makes no further send.                              *)
(***************************************************************************)
C9_NoSendAfterClose ==
    \A k \in Sinks : \A i, j \in DOMAIN sinkLog[k] :
        sinkLog[k][i].op = "close" /\ i < j => sinkLog[k][j].op # "send"

(***************************************************************************)
(* C10: after a successful Start, firing the cancel token with no Stop     *)
(* call eventually leads to the relay loop returned, the connection closed *)
(* with its messages channel closed, and every sink closed exactly once.   *)
(***************************************************************************)
NumCloses(k) == Cardinality({i \in DOMAIN sinkLog[k] : sinkLog[k][i].op = "close"})

C10_CancelShutsDown ==
    (lastStart = "ok" /\ cancelled)
      ~> (/\ loop.pc = "done"
          /\ drv.closed /\ ~drv.connected
          /\ \A k \in Range(outputs) : NumCloses(k) = 1)

(***************************************************************************)
(* C11: Stop on a service that is not running (never started, Start        *)
(* failed, already stopped) closes nothing, so every constructed sink has  *)
(* Close invoked at most once.                                             *)
(***************************************************************************)
C11_StopIdempotent == \A k \in Sinks : NumCloses(k) <= 1

(***************************************************************************)
(* C12: Start on a running service reports "already running" and changes   *)
(* nothing: sinks, connection, driver, relay loop, statistics and the      *)
(* running flag are as before.                                             *)
(***************************************************************************)
C12_StartWhileRunning ==
    [][(running /\ lastStart' # lastStart)
         => /\ lastStart' = "already"
            /\ UNCHANGED << running, stats, connection, outputs, loop, sinkLog,
                            taken, relayed, stopped, drv, nextId, dropped,
                            lastCall, cancelled >>]_vars

C12_Witness ==
    /\ lastStart = "already"
    /\ running
    /\ loop.pc = "select"
    /\ drv.connects = 1

(***************************************************************************)
(* C13: when Start has failed, no constructed sink is left open and no     *)
(* relay loop was spawned.                                                 *)
(***************************************************************************)
NumNews(k) == Cardinality({i \in DOMAIN sinkLog[k] : sinkLog[k][i].op = "new"})

C13_FailedStartLeavesNothing ==
    (lastStart \in {"err_outputs", "err_connection", "err_connect"} /\ ~stopped)
      => /\ loop.pc = "none"
         /\ \A k \in Sinks : NumCloses(k) = NumNews(k)

(***************************************************************************)
(* C14: Connect on a connected driver returns success and leaves the       *)
(* driver as it was: transport, stop signal, messages channel and reader   *)
(* tasks are unchanged.                                                    *)
(***************************************************************************)
NumReaders == Cardinality({r \in Readers : drv.readers[r] # "none"})

C14_ConnectWhenConnected ==
    /\ drv.connected => \A ok \in BOOLEAN : Connect(drv, cfg.connType, ok) = drv
    /\ IsStream(cfg.connType) => NumReaders = drv.connects

C14_Witness ==
    /\ lastCall = "connect_again"
    /\ drv.connected
    /\ drv.connects = 1
    /\ NumReaders = 1

(***************************************************************************)
(* StreamFramer (pkg/meshtastic/framing.go).  frm.buf is the filled part   *)
(* of readBuffer; io.wire holds the bytes the underlying reader has not    *)
(* yet handed out.  A Read returns some of them, or a timeout, or, when    *)
(* none is left, the end of the stream.                                    *)
(***************************************************************************)
PutUint16(n) == << (n \div 256) % 256, n % 256 >>

Uint16(b) == b[1] * 256 + b[2]

RECURSIVE Flatten(_)
Flatten(ws) == IF ws = <<>> THEN <<>> ELSE Head(ws) \o Flatten(Tail(ws))

\* WritePacket writing the header and the payload in two writes.
WritePacket_TwoWrites(data) ==
    IF Len(data) > MaxPacketSize
    THEN [err |-> "PacketTooLarge", writes |-> <<>>]
    ELSE [err |-> "nil",
          writes |-> << << Magic1, Magic2 >> \o PutUint16(Len(data)), data >>]

\* WritePacket: the error it returns and the data of each Write call it makes.
WritePacket(data) ==
    IF Len(data) > MaxPacketSize
    THEN [err |-> "PacketTooLarge", writes |-> <<>>]
    ELSE [err |-> "nil",
          writes |-> << << Magic1, Magic2 >> \o PutUint16(Len(data)) \o data >>]

\* len(readBuffer)
BufferSize == MaxPacketSize + HeaderSize

\* A Read that ignores the length of the slice it was given.
ReadSizes_NoSpace(avail, space) == {n \in {1, avail} : n >= 1 /\ n <= avail}

\* The byte counts one Read may return with avail bytes on the wire and
\* space bytes left in the slice it was given.
ReadSizes(avail, space) ==
    {n \in {1, IF avail < space THEN avail ELSE space} :
        n >= 1 /\ n <= avail /\ n <= space}

MagicOk(buf) == buf[1] = Magic1 /\ buf[2] = Magic2

LengthOf(buf) == Uint16(SubSeq(buf, 3, 4))

\* ReadPacket is in one of its two read loops.
NeedsRead(buf) ==
    IF Len(buf) < HeaderSize THEN TRUE
    ELSE /\ MagicOk(buf)
         /\ LengthOf(buf) <= MaxPacketSize
         /\ Len(buf) < HeaderSize + LengthOf(buf)

\* A temporary error drops what is buffered.
OnTemporary_Drop(buf) == <<>>

\* "continue" on a temporary error: the buffer is as it was.
OnTemporary(buf) == buf

\* The magic mismatch clears the buffer.
SlideOne_Clear(buf) == <<>>

\* copy(f.readBuffer, f.readBuffer[1:f.readPos]); f.readPos--
SlideOne(buf) == Tail(buf)

\* The oversized length leaves the buffer as it is.
ResetBuffer_Keep(buf) == buf

\* f.readPos = 0
ResetBuffer(buf) == <<>>

\* The extraction forgets the bytes read beyond the frame.
Extract_NoShift(buf, totalLen) ==
    [payload |-> SubSeq(buf, HeaderSize + 1, totalLen), rest |-> <<>>]

\* The payload copied out and the remaining bytes shifted to the front.
Extract(buf, totalLen) ==
    [payload |-> SubSeq(buf, HeaderSize + 1, totalLen),
     rest |-> SubSeq(buf, totalLen + 1, Len(buf))]

Call(op, res, payload) == [op |-> op, res |-> res, payload |-> payload]

FramerOnly ==
    UNCHANGED relayVars /\ UNCHANGED drvVars /\ UNCHANGED svcVars
    /\ UNCHANGED << dec, rd, sim, mq, file, apprise >>

\* ReadPacket is called.
ReadPacketCall ==
    /\ frm.pc = "idle"
    /\ frm' = [frm EXCEPT !.pc = "run", !.retried = FALSE]
    /\ UNCHANGED io
    /\ FramerOnly

\* f.reader.Read returns n > 0 bytes and no error.
ReadData ==
    /\ frm.pc = "run" /\ NeedsRead(frm.buf)
    /\ \E n \in ReadSizes(Len(io.wire), BufferSize - Len(frm.buf)) :
         /\ frm' = [frm EXCEPT !.buf = frm.buf \o SubSeq(io.wire, 1, n)]
         /\ io' = [io EXCEPT !.wire = SubSeq(io.wire, n + 1, Len(io.wire))]
    /\ FramerOnly

\* f.reader.Read returns a timeout: ReadPacket returns it when nothing is
\* buffered, and reads again otherwise.
ReadTemporary ==
    /\ frm.pc = "run" /\ NeedsRead(frm.buf)
    /\ frm' = IF Len(frm.buf) = 0
              THEN [frm EXCEPT !.pc = "idle", !.last = "timeout"]
              ELSE [frm EXCEPT !.buf = OnTemporary(frm.buf), !.retried = TRUE]
    /\ UNCHANGED io
    /\ FramerOnly

\* f.reader.Read returns io.EOF: ReadPacket returns it, the buffer stays.
ReadEOF ==
    /\ frm.pc = "run" /\ NeedsRead(frm.buf)
    /\ io.wire = <<>>
    /\ frm' = [frm EXCEPT !.pc = "idle", !.last = "EOF"]
    /\ UNCHANGED io
    /\ FramerOnly

\* The header is buffered: magic check, length check, and once the whole
\* frame is buffered the extraction of the payload.
ReadPacketReturn ==
    /\ frm.pc = "run" /\ ~NeedsRead(frm.buf)
    /\ frm' =
         IF ~MagicOk(frm.buf)
         THEN [frm EXCEPT !.buf = SlideOne(frm.buf),
                          !.removed = frm.removed + 1,
                          !.pc = "idle", !.last = "InvalidMagic",
                          !.calls = Append(frm.calls,
                                      Call("read", "InvalidMagic", <<>>))]
         ELSE IF LengthOf(frm.buf) > MaxPacketSize
         THEN [frm EXCEPT !.buf = ResetBuffer(frm.buf),
                          !.removed = frm.removed + Len(frm.buf),
                          !.pc = "idle", !.last = "PacketTooLarge",
                          !.calls = Append(frm.calls,
                                      Call("read", "PacketTooLarge", <<>>))]
         ELSE LET x == Extract(frm.buf, HeaderSize + LengthOf(frm.buf))
              IN [frm EXCEPT !.buf = x.rest,
                             !.removed = frm.removed + HeaderSize + LengthOf(frm.buf),
                             !.pc = "idle", !.last = "nil",
                             !.resumed = frm.resumed \/ frm.retried,
                             !.calls = Append(frm.calls,
                                         Call("read", "nil", x.payload))]
    /\ UNCHANGED io
    /\ FramerOnly

\* WritePacket of the next payload of the script; the stream is a loopback,
\* as the bytes.Buffer of the framer tests.
FramerWrite ==
    /\ frm.pc = "idle"
    /\ io.script # <<>>
    /\ LET w == WritePacket(Head(io.script))
       IN io' = [io EXCEPT !.wire = io.wire \o Flatten(w.writes),
                           !.script = Tail(io.script),
                           !.writeLog = io.writeLog \o w.writes,
                           !.wrote = Append(io.wrote,
                                        [data |-> Head(io.script), err |-> w.err])]
    /\ UNCHANGED frm
    /\ FramerOnly

\* SyncToMagic reads single bytes from the reader.  After each byte that
\* does not end the scan, foundFirst is "that byte was Magic1", so the scan
\* returns nil at the first byte Magic2 that directly follows a Magic1: its
\* index, 0 when the stream ends first.
SyncScan(w) ==
    LET hits == {i \in 2..Len(w) : w[i - 1] = Magic1 /\ w[i] = Magic2}
    IN IF hits = {} THEN 0 ELSE CHOOSE i \in hits : \A j \in hits : i <= j

NumSyncs == Cardinality({i \in DOMAIN frm.calls : frm.calls[i].op = "sync"})

SyncToMagic ==
    /\ frm.pc = "idle"
    /\ NumSyncs < MaxResyncs
    /\ LET k == SyncScan(io.wire)
       IN /\ io' = [io EXCEPT !.wire = IF k = 0 THEN <<>>
                                       ELSE SubSeq(io.wire, k + 1, Len(io.wire))]
          /\ frm' = [frm EXCEPT !.last = IF k = 0 THEN "EOF" ELSE "nil",
                                !.calls = Append(frm.calls,
                                            Call("sync", IF k = 0 THEN "EOF" ELSE "nil",
                                                 <<>>))]
    /\ FramerOnly

\* Streams: bytes present before anything is written, then the payloads the
\* host writes.
Text == << 116, 101, 115, 116 >>

Pattern(n) == [i \in 1..n |-> (7 * i) % 256]

SmallPayloads == { <<>>, Text, << 24, 1 >>, << Magic1, Magic2 >> }

BigPayloads == { Pattern(256), Pattern(MaxPacketSize), Pattern(MaxPacketSize + 1) }

Scripts ==
    SeqsUpTo(SmallPayloads, MaxFrames)
      \cup { << b >> : b \in BigPayloads }
      \cup { << Text, b >> : b \in BigPayloads }
      \cup { << b, Text >> : b \in BigPayloads }

Garbage ==
    { <<>>,
      << 0, 0, 0, 4 >> \o Text,
      << 0, 1, 2, 3, 255 >>,
      << Magic1, Magic2, 2, 1 >> \o Text,
      << Magic1 >> }

InitFramer ==
    /\ cfg = [connType |-> "serial", filters |-> NoFilter,
              outputs |-> << Sink("ok") >>]
    /\ capacity = ModelCap
    /\ traffic = {}
    /\ budget = 0
    /\ InitState
    /\ frm = NewStreamFramer
    /\ mq = NoParse /\ file = NoFile /\ apprise = NoApprise
    /\ sim = NoDevice
    /\ rd = NoReadLoop
    /\ dec = NoDecode
    /\ io \in { [garbage |-> g, wire |-> g, script |-> sc,
                 writeLog |-> <<>>, wrote |-> <<>>] :
                  g \in Garbage, sc \in Scripts }

NextFramer ==
    \/ ReadPacketCall
    \/ ReadData
    \/ ReadTemporary
    \/ ReadEOF
    \/ ReadPacketReturn
    \/ FramerWrite

SpecFramer == InitFramer /\ [][NextFramer]_vars

\* Garbage ahead of one valid frame, and a host that may resynchronise.
InitResync ==
    /\ cfg = [connType |-> "serial", filters |-> NoFilter,
              outputs |-> << Sink("ok") >>]
    /\ capacity = ModelCap
    /\ traffic = {}
    /\ budget = 0
    /\ InitState
    /\ frm = NewStreamFramer
    /\ mq = NoParse /\ file = NoFile /\ apprise = NoApprise
    /\ sim = NoDevice
    /\ rd = NoReadLoop
    /\ dec = NoDecode
    /\ io \in { [garbage |-> g, wire |-> g, script |-> << p >>,
                 writeLog |-> <<>>, wrote |-> <<>>] :
                  g \in { << 0, 1, 2, 3, 255 >>, << Magic1 >> },
                  p \in { Text, << 24, 1 >> } }

NextResync == NextFramer \/ SyncToMagic

SpecResync == InitResync /\ [][NextResync]_vars

(***************************************************************************)
(* Reading the framer's call history.                                      *)
(***************************************************************************)
IsOkRead(c) == c.op = "read" /\ c.res = "nil"

\* The payloads ReadPacket returned, in order.
OkPayloads ==
    LET ok == SelectSeq(frm.calls, IsOkRead)
    IN [i \in DOMAIN ok |-> ok[i].payload]

IsAccepted(w) == w.err = "nil"

\* The payloads WritePacket accepted, in order.
Accepted ==
    LET acc == SelectSeq(io.wrote, IsAccepted)
    IN [i \in DOMAIN acc |-> acc[i].data]

IsPrefix(a, b) == Len(a) <= Len(b) /\ a = SubSeq(b, 1, Len(a))

\* Every byte the stream ever carried.
AllBytes == io.garbage \o Flatten(io.writeLog)

LastCall == frm.calls[Len(frm.calls)]

(***************************************************************************)
(* C15: on a stream that holds only what WritePacket wrote, ReadPacket     *)
(* returns the written payloads (of 0 to 512 bytes) unchanged and in the   *)
(* order written, none lost, merged or repeated, however the reader        *)
(* splits the bytes into reads.                                            *)
(***************************************************************************)
C15_RoundTrip ==
    io.garbage = <<>> =>
       /\ \A i \in DOMAIN frm.calls : frm.calls[i].res = "nil"
       /\ IsPrefix(OkPayloads, Accepted)
       /\ (frm.buf = <<>> /\ io.wire = <<>>) => OkPayloads = Accepted

C15_Witness ==
    /\ io.garbage = <<>>
    /\ OkPayloads = << Pattern(MaxPacketSize), Text >>
    /\ io.wire = <<>>
    /\ frm.pc = "idle"

(***************************************************************************)
(* C16: a temporary read error met while part of a frame is buffered loses *)
(* nothing: the bytes not yet returned are exactly the buffer followed by  *)
(* the unread stream, and the payload is returned complete and unchanged   *)
(* once the rest has arrived.                                              *)
(***************************************************************************)
C16_Resumable ==
    /\ SubSeq(AllBytes, frm.removed + 1, Len(AllBytes)) = frm.buf \o io.wire
    /\ frm.last = "timeout" /\ frm.pc = "idle" => frm.buf = <<>>
    /\ frm.resumed /\ io.garbage = <<>> => IsPrefix(OkPayloads, Accepted)

C16_Witness ==
    /\ frm.resumed
    /\ io.garbage = <<>>
    /\ OkPayloads = << Text, << 24, 1 >> >>
    /\ frm.retried /\ frm.last = "nil" /\ frm.pc = "idle"

(***************************************************************************)
(* C17: with a header buffered whose first two bytes are not 0x94 0xC3,    *)
(* ReadPacket drops exactly the first buffered byte, keeps the others in   *)
(* order and returns InvalidMagic; the stream 00 00 00 04 't' 'e' 's' 't'  *)
(* gives InvalidMagic on the first ReadPacket that returns a result.       *)
(***************************************************************************)
C17_InvalidMagic ==
    /\ [](io.garbage = << 0, 0, 0, 4 >> \o Text /\ frm.calls # <<>>
            => frm.calls[1] = Call("read", "InvalidMagic", <<>>))
    /\ [][(/\ frm.pc = "run"
           /\ Len(frm.buf) >= HeaderSize
           /\ ~(frm.buf[1] = Magic1 /\ frm.buf[2] = Magic2)
           /\ frm' # frm)
          => /\ Len(frm'.buf) = Len(frm.buf) - 1
             /\ \A i \in 1..Len(frm'.buf) : frm'.buf[i] = frm.buf[i + 1]
             /\ frm'.last = "InvalidMagic"
             /\ frm'.pc = "idle"
             /\ frm'.calls = Append(frm.calls, Call("read", "InvalidMagic", <<>>))
             /\ io' = io]_vars

C17_Witness ==
    /\ io.garbage = << 0, 0, 0, 4 >> \o Text
    /\ frm.calls = << Call("read", "InvalidMagic", <<>>) >>
    /\ frm.buf = << 0, 0, 4 >> \o Text
    /\ frm.pc = "idle"

(***************************************************************************)
(* C18: with a header buffered that has the magic pair and a length field  *)
(* above 512, ReadPacket empties its buffer and returns PacketTooLarge     *)
(* with no payload.                                                        *)
(***************************************************************************)
C18_TooLarge ==
    [][(/\ frm.pc = "run"
        /\ Len(frm.buf) >= HeaderSize
        /\ frm.buf[1] = Magic1 /\ frm.buf[2] = Magic2
        /\ frm.buf[3] * 256 + frm.buf[4] > MaxPacketSize
        /\ frm' # frm)
       => /\ frm'.buf = <<>>
          /\ frm'.last = "PacketTooLarge"
          /\ frm'.pc = "idle"
          /\ frm'.calls = Append(frm.calls, Call("read", "PacketTooLarge", <<>>))
          /\ io' = io]_vars

C18_Witness ==
    /\ frm.last = "PacketTooLarge"
    /\ frm.pc = "idle"
    /\ frm.buf = <<>>
    /\ frm.removed > HeaderSize
    /\ frm.calls = << Call("read", "PacketTooLarge", <<>>) >>

(***************************************************************************)
(* C19: WritePacket rejects a payload of more than 512 bytes with          *)
(* PacketTooLarge and writes nothing; for any other payload it makes       *)
(* exactly one Write of 0x94, 0xC3, the length as big-endian 16 bits and   *)
(* the payload.                                                            *)
(***************************************************************************)
C19_WriteFormat ==
    /\ \A i \in DOMAIN io.wrote :
          io.wrote[i].err = IF Len(io.wrote[i].data) > MaxPacketSize
                            THEN "PacketTooLarge" ELSE "nil"
    /\ Len(io.writeLog) = Len(Accepted)
    /\ \A j \in DOMAIN io.writeLog :
          io.writeLog[j] = << Magic1, Magic2, Len(Accepted[j]) \div 256,
                              Len(Accepted[j]) % 256 >> \o Accepted[j]

C19_Witness ==
    /\ io.wrote = << [data |-> Text, err |-> "nil"],
                     [data |-> Pattern(MaxPacketSize + 1), err |-> "PacketTooLarge"] >>
    /\ io.writeLog = << << Magic1, Magic2, 0, 4 >> \o Text >>

(***************************************************************************)
(* C20: on garbage followed by a valid frame, SyncToMagic and then         *)
(* ReadPacket return that frame's payload, both on a fresh framer and      *)
(* after a first ReadPacket has returned InvalidMagic.                     *)
(***************************************************************************)
C20_ResyncThenRead ==
    /\ (/\ io.garbage = << 0, 1, 2, 3, 255 >>
        /\ Len(frm.calls) >= 2
        /\ frm.calls[1] = Call("sync", "nil", <<>>)
        /\ frm.calls[2].op = "read")
       => frm.calls[2] = Call("read", "nil", io.wrote[1].data)
    /\ (/\ io.garbage = << 0, 1, 2, 3, 255 >>
        /\ Len(frm.calls) >= 3
        /\ frm.calls[1] = Call("read", "InvalidMagic", <<>>)
        /\ frm.calls[2].op = "sync"
        /\ frm.calls[3].op = "read")
       => frm.calls[3] = Call("read", "nil", io.wrote[1].data)

(***************************************************************************)
(* C21: the framer never buffers more than 516 bytes (header plus largest  *)
(* payload); after a successful ReadPacket the bytes left in the buffer    *)
(* are at most one packet's worth and are the stream bytes that directly   *)
(* follow the returned frame, in order.                                    *)
(***************************************************************************)
C21_BufferBound ==
    /\ Len(frm.buf) <= HeaderSize + MaxPacketSize
    /\ frm.removed + Len(frm.buf) <= Len(AllBytes)
    /\ (frm.pc = "idle" /\ frm.last = "nil") =>
          /\ Len(frm.buf) <= HeaderSize + MaxPacketSize
          /\ \A i \in 1..Len(frm.buf) : frm.buf[i] = AllBytes[frm.removed + i]

C21_Witness ==
    /\ frm.pc = "idle" /\ frm.last = "nil"
    /\ OkPayloads = << Text >>
    /\ Len(frm.buf) = MaxPacketSize - Len(Text)
    /\ io.wire # <<>>

(***************************************************************************)
(* The protobuf decoder.  Bytes are 0..255 and positions count from 0 as   *)
(* in the code.  A uint64 is kept as its ten base-128 digits, lowest       *)
(* first, bit 63 being the tenth digit.                                    *)
(***************************************************************************)
Zero64 == [i \in 1..10 |-> 0]

Min(a, b) == IF a < b THEN a ELSE b

\* decodeVarint: the value and the number of bytes read, or (0, 0) when
\* the data ends inside the varint or a tenth byte asks for more.
decodeVarint(data) ==
    LET stops == {i \in 1..Min(Len(data), 10) : data[i] < 128}
    IN IF stops = {}
       THEN [val |-> Zero64, n |-> 0]
       ELSE LET n == CHOOSE i \in stops : \A j \in stops : i <= j
            IN [val |-> [i \in 1..10 |-> IF i > n THEN 0
                                         ELSE IF i = 10 THEN data[i] % 2
                                         ELSE data[i] % 128],
                n |-> n]

\* The low 28 bits of a uint64, and whether the bits 28..62 are all clear
\* or all set.
Low(v) == v[1] + 128 * v[2] + 16384 * v[3] + 2097152 * v[4]
HighClear(v) == \A i \in 5..9 : v[i] = 0
HighSet(v) == \A i \in 5..9 : v[i] = 127

\* Mutant of Uint32: the conversion keeps 28 bits.
Uint32_Low28(v) == [hi |-> 0, lo |-> Low(v)]

\* uint32(val): the low 32 bits.
Uint32(v) == [hi |-> v[5] % 16, lo |-> Low(v)]

\* Stands for every int further from zero than any position in a buffer.
Far == 2^30

\* pos + int(length) in 64-bit two's complement, for a small pos: exact
\* when the result is within 2^28 of a buffer position, and Far or -Far
\* beyond that.  A length with bit 63 set converts to a negative int; a
\* length just below 2^63 wraps the sum.
AddInt(pos, v) ==
    LET m == 268435456 - Low(v)
    IN IF v[10] = 0
       THEN IF HighClear(v) THEN pos + Low(v)
            ELSE IF HighSet(v) /\ pos >= m THEN -Far
            ELSE Far
       ELSE IF HighSet(v) THEN pos - m
            ELSE -Far

Kinds == {"FromRadio", "MeshPacket", "Data", "MyNodeInfo", "NodeInfo",
          "User", "Position"}

\* The varint fields each parse function stores, by field number.
VarintFields(kind) ==
    CASE kind = "FromRadio"  -> {1, 8, 9}
      [] kind = "MeshPacket" -> {1, 2, 3, 6, 7, 10, 11, 12, 13, 15, 17}
      [] kind = "Data"       -> {1, 3, 4, 5, 6, 7, 8}
      [] kind = "MyNodeInfo" -> {1, 8, 11}
      [] kind = "NodeInfo"   -> {1, 5, 7, 8, 9, 10}
      [] kind = "User"       -> {5, 6, 7}
      [] kind = "Position"   -> {4, 5, 6, 7, 14, 15, 20}

\* Those of them stored as val != 0.
BoolFields(kind) ==
    CASE kind = "FromRadio"  -> {9}
      [] kind = "MeshPacket" -> {11, 17}
      [] kind = "Data"       -> {3}
      [] kind = "NodeInfo"   -> {8, 10}
      [] kind = "User"       -> {6}
      [] OTHER               -> {}

\* The length-delimited fields stored as bytes or strings.
BytesFields(kind) ==
    CASE kind = "FromRadio"  -> {11}
      [] kind = "MeshPacket" -> {5, 16}
      [] kind = "Data"       -> {2}
      [] kind = "User"       -> {1, 2, 3, 4, 8}
      [] OTHER               -> {}

\* The length-delimited fields parsed as a message: field number to kind.
SubMessages(kind) ==
    CASE kind = "FromRadio"  -> (2 :> "MeshPacket") @@ (3 :> "MyNodeInfo")
                                @@ (4 :> "NodeInfo")
      [] kind = "MeshPacket" -> (4 :> "Data")
      [] kind = "NodeInfo"   -> (2 :> "User") @@ (3 :> "Position")
      [] OTHER               -> <<>>

\* The 32-bit fields stored.
Fixed32Fields(kind) ==
    CASE kind = "MeshPacket" -> {14}
      [] kind = "NodeInfo"   -> {4}
      [] kind = "Position"   -> {1, 2, 3}
      [] OTHER               -> {}

\* parseMyNodeInfo and parsePosition step over a length-delimited field
\* without comparing its length with the data; the others compare.
ChecksLength(kind) == kind \notin {"MyNodeInfo", "Position"}

\* The parse functions with a case for wire type 5.
HasFixed32Case(kind) == kind \in {"MeshPacket", "NodeInfo", "Position"}

\* ParseFromRadio's default case returns ErrUnsupportedType; the switch of
\* every other parse function has no default.
HasDefaultError(kind) == kind = "FromRadio"

\* The zero value of a message struct.
Fields(kind) ==
    VarintFields(kind) \cup BytesFields(kind) \cup DOMAIN SubMessages(kind)
    \cup Fixed32Fields(kind)

ZeroMessage(kind) ==
    [f \in Fields(kind) |->
        IF f \in BoolFields(kind) THEN FALSE
        ELSE IF f \in VarintFields(kind) THEN Uint32(Zero64)
        ELSE <<>>]

IsZero64(v) == \A i \in 1..10 : v[i] = 0

StoreVarint(kind, msg, f, v) ==
    IF f \notin VarintFields(kind) THEN msg
    ELSE [msg EXCEPT ![f] = IF f \in BoolFields(kind) THEN ~IsZero64(v)
                            ELSE Uint32(v)]

Ok(msg) == [err |-> "nil", msg |-> << msg >>]
Failed(err) == [err |-> err, msg |-> <<>>]

\* One parse function: the loop over the fields of data from position pos,
\* seen being the positions the loop has already started a field at.  The
\* loop is a function of pos alone, so reaching a position a second time
\* means it never ends.
RECURSIVE ParseLoop(_, _, _, _, _)
ParseLoop(kind, data, pos, msg, seen) ==
    IF pos >= Len(data) THEN Ok(msg)
    ELSE IF pos < 0 THEN Failed("panic")
    ELSE IF pos \in seen THEN Failed("hang")
    ELSE
    LET tag == data[pos + 1]
        fieldNum == tag \div 8
        wireType == tag % 8
        p1 == pos + 1
        v == decodeVarint(SubSeq(data, p1 + 1, Len(data)))
        p2 == p1 + v.n
        end == AddInt(p2, v.val)
        seen2 == seen \cup {pos}
    IN CASE wireType = 0 ->
              ParseLoop(kind, data, p2, StoreVarint(kind, msg, fieldNum, v.val),
                        seen2)
         [] wireType = 2 /\ ~ChecksLength(kind) ->
              ParseLoop(kind, data, end, msg, seen2)
         [] wireType = 2 /\ ChecksLength(kind) ->
              IF end > Len(data) THEN Failed("ErrInvalidProtobuf")
              ELSE IF end < p2 THEN Failed("panic")
              ELSE LET fieldData == SubSeq(data, p2 + 1, end)
                   IN IF fieldNum \in DOMAIN SubMessages(kind)
                      THEN LET sub == ParseLoop(SubMessages(kind)[fieldNum],
                                                fieldData, 0,
                                                ZeroMessage(SubMessages(kind)[fieldNum]),
                                                {})
                           IN IF sub.err # "nil" THEN sub
                              ELSE ParseLoop(kind, data, end,
                                             [msg EXCEPT ![fieldNum] = sub.msg],
                                             seen2)
                      ELSE IF fieldNum \in BytesFields(kind)
                      THEN ParseLoop(kind, data, end,
                                     [msg EXCEPT ![fieldNum] = fieldData], seen2)
                      ELSE ParseLoop(kind, data, end, msg, seen2)
         [] wireType = 5 /\ HasFixed32Case(kind) ->
              IF p1 + 4 > Len(data) THEN Failed("ErrInvalidProtobuf")
              ELSE IF fieldNum \in Fixed32Fields(kind)
              THEN ParseLoop(kind, data, p1 + 4,
                             [msg EXCEPT ![fieldNum] = SubSeq(data, p1 + 1, p1 + 4)],
                             seen2)
              ELSE ParseLoop(kind, data, p1 + 4, msg, seen2)
         [] OTHER ->
              IF HasDefaultError(kind) THEN Failed("ErrUnsupportedType")
              ELSE ParseLoop(kind, data, p1, msg, seen2)

parseMeshPacket(data) == ParseLoop("MeshPacket", data, 0, ZeroMessage("MeshPacket"), {})
parseData(data) == ParseLoop("Data", data, 0, ZeroMessage("Data"), {})
parseMyNodeInfo(data) == ParseLoop("MyNodeInfo", data, 0, ZeroMessage("MyNodeInfo"), {})
parseNodeInfo(data) == ParseLoop("NodeInfo", data, 0, ZeroMessage("NodeInfo"), {})
parseUser(data) == ParseLoop("User", data, 0, ZeroMessage("User"), {})
parsePosition(data) == ParseLoop("Position", data, 0, ZeroMessage("Position"), {})

ParseFromRadio(data) ==
    IF Len(data) < 2 THEN Failed("ErrInvalidProtobuf")
    ELSE ParseLoop("FromRadio", data, 0, ZeroMessage("FromRadio"), {})

(***************************************************************************)
(* The decoder on its own: ParseFromRadio applied to byte sequences.       *)
(***************************************************************************)
\* The simulator's encoders.
RECURSIVE encodeVarint(_)
encodeVarint(v) ==
    IF v >= 128 THEN << 128 + (v % 128) >> \o encodeVarint(v \div 128)
    ELSE << v >>
encodeTag(fieldNum, wireType) == encodeVarint(fieldNum * 8 + wireType)
encodeBytes(fieldNum, data) ==
    encodeTag(fieldNum, 2) \o encodeVarint(Len(data)) \o data

\* encodeVarint(uint64(v)) for a uint32 v.  A uint32 of 2^31 or more is held
\* as v - 2^32, the int32 with the same bits; its varint has five bytes.
encodeVarint32(v) ==
    IF v >= 0 THEN encodeVarint(v)
    ELSE << 128 + (v % 128), 128 + ((v \div 128) % 128),
            128 + ((v \div 16384) % 128), 128 + ((v \div 2097152) % 128),
            (v \div 268435456) % 16 >>
encodeUint32(fieldNum, v) == encodeTag(fieldNum, 0) \o encodeVarint32(v)

\* encodeInt32: encodeVarint(uint64(v)) for an int32 v.  The conversion
\* extends the sign, so a negative v takes ten bytes.
encodeInt32(fieldNum, v) ==
    encodeTag(fieldNum, 0) \o
    (IF v >= 0 THEN encodeVarint(v)
     ELSE << 128 + (v % 128), 128 + ((v \div 128) % 128),
             128 + ((v \div 16384) % 128), 128 + ((v \div 2097152) % 128),
             128 + ((v \div 268435456) % 128), 255, 255, 255, 255, 1 >>)

\* encodeFixed32 and encodeSFixed32: the four bytes, lowest first.
encodeFixed32(fieldNum, v) ==
    encodeTag(fieldNum, 5) \o
    << v % 256, (v \div 256) % 256, (v \div 65536) % 256,
       (v \div 16777216) % 256 >>
encodeSFixed32(fieldNum, v) == encodeFixed32(fieldNum, v)

\* EncodeData, EncodeMeshPacket and EncodeFromRadio, as the fields they
\* append.  snr is a whole number; the field holds int32(snr * 4).
DataFields(portNum, payload) ==
    << encodeUint32(1, portNum), encodeBytes(2, payload) >>
MeshPacketFields(from, to, channel, id, decoded, rxTime, snr, rssi, hopLimit) ==
    << encodeUint32(1, from), encodeUint32(2, to), encodeUint32(3, channel) >>
    \o (IF Len(decoded) > 0 THEN << encodeBytes(4, decoded) >> ELSE <<>>)
    \o << encodeUint32(6, id) >>
    \o (IF rxTime # 0 THEN << encodeUint32(7, rxTime) >> ELSE <<>>)
    \o << encodeUint32(10, hopLimit) >>
    \o (IF snr # 0 THEN << encodeInt32(13, snr * 4) >> ELSE <<>>)
    \o (IF rssi # 0 THEN << encodeSFixed32(14, rssi) >> ELSE <<>>)
FromRadioFields(id, packet, myInfo, nodeInfo, configCompleteID) ==
    << encodeUint32(1, id) >>
    \o (IF Len(packet) > 0 THEN << encodeBytes(2, packet) >> ELSE <<>>)
    \o (IF Len(myInfo) > 0 THEN << encodeBytes(3, myInfo) >> ELSE <<>>)
    \o (IF Len(nodeInfo) > 0 THEN << encodeBytes(4, nodeInfo) >> ELSE <<>>)
    \o (IF configCompleteID # 0 THEN << encodeUint32(8, configCompleteID) >>
        ELSE <<>>)

EncodeData(portNum, payload) == Flatten(DataFields(portNum, payload))
EncodeMeshPacket(from, to, channel, id, decoded, rxTime, snr, rssi, hopLimit) ==
    Flatten(MeshPacketFields(from, to, channel, id, decoded, rxTime, snr, rssi,
                             hopLimit))
EncodeFromRadio(id, packet, myInfo, nodeInfo, configCompleteID) ==
    Flatten(FromRadioFields(id, packet, myInfo, nodeInfo, configCompleteID))

\* A text message "hi" from node 42 to node 7 on channel 1, as the fields
\* of its three nested messages.
TextData == DataFields(PortNumTextMessage, << 104, 105 >>)
TextPacket(decoded) == MeshPacketFields(42, 7, 1, 5, decoded, 0, 0, 0, 3)
TextRadio(packet) == FromRadioFields(9, packet, <<>>, <<>>, 0)

TextFrame == Flatten(TextRadio(Flatten(TextPacket(Flatten(TextData)))))

\* A field whose number none of FromRadio (14), MeshPacket (9) and Data (9)
\* stores, in each of the four wire types.
UnknownNum(kind) == IF kind = "FromRadio" THEN 14 ELSE 9
WireTypes == {0, 1, 2, 5}
UnknownField(kind, wireType) ==
    encodeTag(UnknownNum(kind), wireType) \o
    ( CASE wireType = 0 -> << 5 >>
        [] wireType = 1 -> << 1, 2, 3, 4, 5, 6, 7, 8 >>
        [] wireType = 2 -> << 2, 170, 187 >>
        [] wireType = 5 -> << 1, 2, 3, 4 >> )

InsertAt(fields, k, u) ==
    SubSeq(fields, 1, k) \o << u >> \o SubSeq(fields, k + 1, Len(fields))

\* TextFrame with the field u after the k-th field of its kind message.
WithUnknown(kind, k, u) ==
    LET d == IF kind = "Data" THEN InsertAt(TextData, k, u) ELSE TextData
        m == IF kind = "MeshPacket"
             THEN InsertAt(TextPacket(Flatten(d)), k, u)
             ELSE TextPacket(Flatten(d))
        r == IF kind = "FromRadio"
             THEN InsertAt(TextRadio(Flatten(m)), k, u)
             ELSE TextRadio(Flatten(m))
    IN Flatten(r)

\* The places between two known fields of each message of TextFrame.
Between(kind) ==
    CASE kind = "FromRadio" -> {1} [] kind = "MeshPacket" -> 1..5
      [] kind = "Data" -> {1}

Rep(n, b) == [i \in 1..n |-> b]

\* Length varints: 0, 2, 5, cut short, 2^63, 2^64 - 1, eleven bytes,
\* 2^64 - 11 and 2^63 - 1.
LengthShapes ==
    { << 0 >>, << 2, 8, 1 >>, << 5 >>, << 128 >>,
      Rep(9, 128) \o << 1 >>,
      Rep(9, 255) \o << 1 >>,
      Rep(10, 128) \o << 1 >>,
      << 245 >> \o Rep(8, 255) \o << 1 >>,
      Rep(8, 255) \o << 127 >> }

Prefixes(w) == {SubSeq(w, 1, n) : n \in 0..Len(w)}

\* Byte sequences as a device or a line fault can produce them.
RawInputs ==
    Prefixes(TextFrame)
    \cup {encodeTag(f, 2) \o l : f \in {2, 3, 4, 11}, l \in LengthShapes}
    \cup {encodeBytes(3, encodeTag(1, 2) \o l) : l \in LengthShapes}
    \cup {encodeBytes(4, encodeBytes(3, encodeTag(1, 2) \o l)) : l \in LengthShapes}

InitDecoder ==
    /\ cfg = [connType |-> "serial", filters |-> NoFilter,
              outputs |-> << Sink("ok") >>]
    /\ capacity = ModelCap
    /\ traffic = {}
    /\ budget = 0
    /\ InitState
    /\ frm = NewStreamFramer
    /\ mq = NoParse /\ file = NoFile /\ apprise = NoApprise
    /\ sim = NoDevice
    /\ rd = NoReadLoop
    /\ io = NoStream
    /\ dec \in {[NoDecode EXCEPT !.data = d, !.ref = d, !.kind = "raw"] :
                    d \in RawInputs}
          \cup UNION {
                {[NoDecode EXCEPT !.data = WithUnknown(k, i, UnknownField(k, w)),
                                  !.ref = TextFrame, !.kind = k] :
                     i \in Between(k), w \in WireTypes} :
                k \in {"FromRadio", "MeshPacket", "Data"} }

\* ParseFromRadio is called on the bytes, and on the bytes they were
\* derived from.
Decode ==
    /\ dec.pc = "idle"
    /\ dec' = [dec EXCEPT !.pc = "done",
                          !.res = ParseFromRadio(dec.data),
                          !.refRes = ParseFromRadio(dec.ref)]
    /\ UNCHANGED << cfg, capacity, traffic, budget, frm, io, rd, sim,
                    mq, file, apprise >>
    /\ UNCHANGED cancelled /\ UNCHANGED drvVars /\ UNCHANGED svcVars

NextDecoder == Decode

SpecDecoder == InitDecoder /\ [][NextDecoder]_vars

(***************************************************************************)
(* C24: ParseFromRadio never crashes and always terminates: on every byte  *)
(* sequence it returns a value or an error.                                *)
(***************************************************************************)
C24_NeverCrashes ==
    dec.pc = "done" =>
        dec.res.err \in {"nil", "ErrInvalidProtobuf", "ErrUnsupportedType"}

(***************************************************************************)
(* C25: an unknown field of any of the four wire types inserted between    *)
(* the known fields of a FromRadio, MeshPacket or Data message is skipped: *)
(* the decoder returns no error and the same values as without it.         *)
(***************************************************************************)
C25_UnknownFieldsSkipped ==
    (dec.pc = "done" /\ dec.kind \in {"FromRadio", "MeshPacket", "Data"}) =>
        /\ dec.res.err = "nil"
        /\ dec.res = dec.refRes

(***************************************************************************)
(* The read loop of the serial and TCP drivers over the framer and the     *)
(* decoder: readLoop, readPacket and handleFromRadio.  The driver has been *)
(* connected once; reader 1 is its read loop.                              *)
(***************************************************************************)
MaxWaits == 2

\* Frame: the device's framing of a payload.
Frame(data) == << Magic1, Magic2 >> \o PutUint16(Len(data)) \o data

\* Mutant of ToPacket: the payload is not carried over.
ToPacket_NoPayload(fr) ==
    LET mp == fr[2][1]
    IN [ ID |-> mp[6], From |-> mp[1], To |-> mp[2], Channel |-> mp[3],
         HopLimit |-> mp[10], WantAck |-> mp[11],
         PortNum |-> IF mp[4] # <<>> THEN mp[4][1][1] ELSE Uint32(Zero64),
         RawPayload |-> <<>>,
         FromNode |-> <<>> ]

\* FromRadio.ToPacket: the fields of the MeshPacket carried over.  The text
\* of a TextMessage payload is string(RawPayload).
ToPacket(fr) ==
    LET mp == fr[2][1]
    IN [ ID |-> mp[6], From |-> mp[1], To |-> mp[2], Channel |-> mp[3],
         HopLimit |-> mp[10], WantAck |-> mp[11],
         PortNum |-> IF mp[4] # <<>> THEN mp[4][1][1] ELSE Uint32(Zero64),
         RawPayload |-> IF mp[4] # <<>> THEN mp[4][1][2] ELSE <<>>,
         FromNode |-> <<>> ]

\* message.FromMeshtasticNodeInfo: a new NodeInfo holding copies of the
\* fields it keeps.
FromMeshtasticNodeInfo(mn) ==
    [ Num |-> mn[1], SNR |-> mn[4], LastHeard |-> mn[5],
      User |-> IF mn[2] = <<>> THEN <<>>
               ELSE << [ID |-> mn[2][1][1], LongName |-> mn[2][1][2],
                        ShortName |-> mn[2][1][3]] >>,
      Position |-> IF mn[3] = <<>> THEN <<>>
                   ELSE << [LatitudeI |-> mn[3][1][1], LongitudeI |-> mn[3][1][2],
                            Altitude |-> mn[3][1][3], Time |-> mn[3][1][4]] >> ]

\* message.FromMeshtasticPacket
FromMeshtasticPacket(mp) ==
    [ ID |-> mp.ID, From |-> mp.From, To |-> mp.To, Channel |-> mp.Channel,
      PortNum |-> mp.PortNum, RawPayload |-> mp.RawPayload,
      HopLimit |-> mp.HopLimit, WantAck |-> mp.WantAck,
      FromNode |-> IF mp.FromNode = <<>> THEN <<>>
                   ELSE << FromMeshtasticNodeInfo(mp.FromNode[1]) >> ]

\* Mutant of StoreNodeInfo: a node already in the database keeps its entry.
StoreNodeInfo_KeepFirst(nodeDB, info) ==
    IF info[1] \in DOMAIN nodeDB THEN nodeDB
    ELSE [n \in DOMAIN nodeDB \cup {info[1]} |->
             IF n = info[1] THEN info ELSE nodeDB[n]]

\* s.nodeDB[fr.NodeInfo.Num] = fr.NodeInfo
StoreNodeInfo(nodeDB, info) ==
    [n \in DOMAIN nodeDB \cup {info[1]} |->
        IF n = info[1] THEN info ELSE nodeDB[n]]

\* nodeInfo, ok := s.nodeDB[meshPacket.From]
LookupNode(nodeDB, from) ==
    IF from \in DOMAIN nodeDB THEN << nodeDB[from] >> ELSE <<>>

\* Mutant of AfterError: an error ends the read loop.
AfterError_Exit(d) == [d EXCEPT !.readers[1] = "done"]

\* readPacket returns on an error of ReadPacket or of ParseFromRadio, and
\* readLoop goes round to its select.
AfterError(d) == [d EXCEPT !.readers[1] = "select"]

\* handleFromRadio: MyInfo and NodeInfo are stored, a Packet is converted,
\* given the sender's database entry and published without blocking.
handleFromRadio(d, r, fr) ==
    LET r1 == IF fr[3] # <<>> THEN [r EXCEPT !.myInfo = fr[3]] ELSE r
        r2 == IF fr[4] # <<>>
              THEN [r1 EXCEPT !.nodeDB = StoreNodeInfo(r1.nodeDB, fr[4][1])]
              ELSE r1
        meshPacket == [ToPacket(fr) EXCEPT
                          !.FromNode = LookupNode(r2.nodeDB, fr[2][1][1])]
    IN [ rd |-> r2,
         drv |-> IF fr[2] # <<>>
                 THEN Publish(d, FromMeshtasticPacket(meshPacket), capacity)
                 ELSE d ]

LoopOnly ==
    /\ UNCHANGED << cfg, capacity, traffic, budget, dec, sim, cancelled >>
    /\ UNCHANGED << mq, file, apprise >>
    /\ UNCHANGED << nextId, dropped, lastCall >>
    /\ UNCHANGED svcVars

\* readPacket calls framer.ReadPacket.
LoopReadPacket ==
    /\ Alive
    /\ drv.readers[1] = "reading" /\ ~rd.called /\ frm.pc = "idle"
    /\ frm' = [frm EXCEPT !.pc = "run", !.retried = FALSE]
    /\ rd' = [rd EXCEPT !.called = TRUE]
    /\ UNCHANGED << io, drv >>
    /\ LoopOnly

\* The port delivers bytes.
LoopReadData == Alive /\ drv.port /\ ReadData

\* The read deadline passes with nothing to deliver.  waits counts the
\* deadlines that pass after the context was cancelled.
LoopReadTemporary ==
    /\ Alive /\ drv.port
    /\ frm.pc = "run" /\ NeedsRead(frm.buf)
    /\ io.wire = <<>>
    /\ frm' = IF Len(frm.buf) = 0
              THEN [frm EXCEPT !.pc = "idle", !.last = "timeout"]
              ELSE [frm EXCEPT !.buf = OnTemporary(frm.buf), !.retried = TRUE]
    /\ rd' = [rd EXCEPT !.waits = IF cancelled THEN Min(rd.waits + 1, MaxWaits)
                                  ELSE rd.waits]
    /\ UNCHANGED << io, drv >>
    /\ LoopOnly

\* The port was closed: the read fails with an error that is no timeout.
LoopReadClosed ==
    /\ Alive /\ ~drv.port
    /\ frm.pc = "run" /\ NeedsRead(frm.buf)
    /\ frm' = [frm EXCEPT !.pc = "idle", !.last = "closed"]
    /\ UNCHANGED << io, drv, rd >>
    /\ LoopOnly

\* ReadPacket has its header: the checks and the extraction.
LoopReadPacketReturn == Alive /\ ReadPacketReturn

Handled(err, fr) == [ev |-> "handled", err |-> err, fr |-> fr]

\* ReadPacket has returned: the rest of readPacket.
LoopHandle ==
    /\ Alive
    /\ drv.readers[1] = "reading" /\ rd.called /\ frm.pc = "idle"
    /\ LET r == [rd EXCEPT !.called = FALSE]
       IN IF frm.last # "nil"
          THEN /\ drv' = AfterError(drv)
               /\ rd' = IF frm.last \in {"InvalidMagic", "PacketTooLarge"}
                        THEN [r EXCEPT !.log = Append(rd.log, Handled(frm.last, <<>>))]
                        ELSE r
          ELSE LET res == ParseFromRadio(LastCall.payload)
               IN CASE res.err = "panic" ->
                         /\ drv' = [drv EXCEPT !.panicked = TRUE]
                         /\ rd' = r
                    [] res.err = "hang" ->
                         /\ drv' = [drv EXCEPT !.readers[1] = "hung"]
                         /\ rd' = r
                    [] res.err \in {"ErrInvalidProtobuf", "ErrUnsupportedType"} ->
                         /\ drv' = AfterError(drv)
                         /\ rd' = [r EXCEPT !.log = Append(rd.log,
                                                       Handled(res.err, <<>>))]
                    [] OTHER ->
                         LET h == handleFromRadio(drv, r, res.msg[1])
                         IN /\ drv' = [h.drv EXCEPT !.readers[1] = "select"]
                            /\ rd' = [h.rd EXCEPT !.log = Append(rd.log,
                                                     Handled("nil", res.msg))]
    /\ UNCHANGED << frm, io >>
    /\ LoopOnly

\* The device writes its next item to the line: a framed FromRadio, or raw
\* bytes.  at is the number of results the read loop had handled by then.
DeviceWrite ==
    /\ drv.port
    /\ io.script # <<>>
    /\ LET item == Head(io.script)
           bytes == IF item.raw THEN item.data ELSE Frame(item.data)
       IN io' = [io EXCEPT !.wire = io.wire \o bytes,
                           !.script = Tail(io.script),
                           !.writeLog = Append(io.writeLog, bytes),
                           !.wrote = Append(io.wrote,
                                       [id |-> item.id, at |-> Len(rd.log)])]
    /\ UNCHANGED << frm, rd, drv >>
    /\ LoopOnly

\* What the device sends.  snr is the float's bit pattern (0 for 0.0).
EncodeUser(id, longName, shortName, hwModel) ==
    encodeBytes(1, id) \o encodeBytes(2, longName) \o encodeBytes(3, shortName)
    \o encodeUint32(5, hwModel)
EncodePosition(latitudeI, longitudeI, altitude, timestamp) ==
    encodeSFixed32(1, latitudeI) \o encodeSFixed32(2, longitudeI)
    \o encodeSFixed32(3, altitude)
    \o (IF timestamp # 0 THEN encodeUint32(4, timestamp) ELSE <<>>)
EncodeNodeInfo(num, user, position, snr, lastHeard) ==
    encodeUint32(1, num)
    \o (IF Len(user) > 0 THEN encodeBytes(2, user) ELSE <<>>)
    \o (IF Len(position) > 0 THEN encodeBytes(3, position) ELSE <<>>)
    \o (IF snr # 0 THEN encodeFixed32(4, snr) ELSE <<>>)
    \o (IF lastHeard # 0 THEN encodeUint32(5, lastHeard) ELSE <<>>)
EncodeMyNodeInfo(nodeNum, rebootCount) ==
    encodeUint32(1, nodeNum) \o encodeUint32(8, rebootCount)
    \o encodeUint32(11, 30000)

Item(raw, data, id) == [raw |-> raw, data |-> data, id |-> id]

\* A text packet with packet id id from node 42.
TextItem(id) ==
    Item(FALSE,
         EncodeFromRadio(id, EncodeMeshPacket(42, 7, 1, id,
                                EncodeData(PortNumTextMessage, << 104, 105 >>),
                                0, 0, 0, 3),
                         <<>>, <<>>, 0),
         id)
\* NodeInfo of node 42, last heard at v.
NodeItem(v) ==
    Item(FALSE, EncodeFromRadio(1, <<>>, <<>>, EncodeNodeInfo(42, <<>>, <<>>, 0, v), 0), 0)
MyInfoItem ==
    Item(FALSE, EncodeFromRadio(1, <<>>, EncodeMyNodeInfo(42, 1), <<>>, 0), 0)
\* Line noise, a header announcing 65535 bytes, a frame cut off by its
\* length field, a frame with a 32-bit field, a frame with a 2^63 length.
NoiseItem == Item(TRUE, << 0, 0, 0, 4 >>, 0)
TooLargeItem == Item(TRUE, << Magic1, Magic2, 255, 255 >>, 0)
ShortItem == Item(FALSE, << 18, 5 >>, 0)
Fixed32Item == Item(FALSE, UnknownField("FromRadio", 5), 0)
CrashItem == Item(FALSE, encodeTag(2, 2) \o Rep(9, 128) \o << 1 >>, 0)
LoopItem ==
    Item(FALSE, encodeBytes(3, encodeTag(1, 2) \o << 245 >> \o Rep(8, 255) \o << 1 >>), 0)

\* The first five bytes of a frame of eight payload bytes.
CutItem == Item(TRUE, << Magic1, Magic2, 0, 8, 8 >>, 0)

LoopScripts ==
    { << CutItem >>,
      << NodeItem(10), TextItem(1), NodeItem(20), TextItem(2) >>,
      << TextItem(1), NodeItem(10) >>,
      << MyInfoItem, TextItem(1) >>,
      << NoiseItem, TextItem(1) >>,
      << TooLargeItem, TextItem(1) >>,
      << ShortItem, TextItem(1) >>,
      << Fixed32Item, TextItem(1) >>,
      << CrashItem >>,
      << LoopItem >> }

InitReadLoop ==
    /\ cfg \in [connType : {"serial", "tcp"}, filters : {NoFilter},
                outputs : {<< Sink("ok") >>}]
    /\ capacity = ChanCapacity
    /\ traffic = {}
    /\ budget = 0
    /\ cancelled = FALSE
    /\ drv = Connect(NewDriver, cfg.connType, TRUE)
    /\ nextId = 1
    /\ dropped = {}
    /\ lastCall = "connect"
    /\ running = FALSE
    /\ stats = ZeroStats
    /\ connection = "nil"
    /\ outputs = <<>>
    /\ loop = IdleLoop
    /\ sinkLog = [k \in DOMAIN cfg.outputs |-> <<>>]
    /\ taken = <<>>
    /\ relayed = <<>>
    /\ lastStart = "none"
    /\ stopped = FALSE
    /\ frm = NewStreamFramer
    /\ mq = NoParse /\ file = NoFile /\ apprise = NoApprise
    /\ sim = NoDevice
    /\ rd = NoReadLoop
    /\ dec = NoDecode
    /\ io \in {[NoStream EXCEPT !.script = sc] : sc \in LoopScripts}

NextReadLoop ==
    \/ ReaderPoll(1)
    \/ LoopReadPacket
    \/ LoopReadData
    \/ LoopReadTemporary
    \/ LoopReadClosed
    \/ LoopReadPacketReturn
    \/ LoopHandle
    \/ DeviceWrite
    \/ Cancel
    \/ HostClose

SpecReadLoop == InitReadLoop /\ [][NextReadLoop]_vars

\* The results the read loop handled that were framing or decode errors.
IsError(e) ==
    e.err \in {"InvalidMagic", "PacketTooLarge", "ErrInvalidProtobuf",
               "ErrUnsupportedType"}
ErrorsIn(log) == {j \in DOMAIN log : IsError(log[j])}

\* The read loop is between two reads with nothing left on the line.
Quiet == Alive /\ ~rd.called /\ frm.buf = <<>> /\ io.wire = <<>>

\* The position in the log of the frame that carried the packet pkt.
FrameOf(pkt) ==
    CHOOSE j \in DOMAIN rd.log :
        /\ rd.log[j].err = "nil"
        /\ rd.log[j].fr[1][2] # <<>>
        /\ rd.log[j].fr[1][2][1][6] = pkt.ID

\* The NodeInfo frames for node n among the first k results handled.
NodeInfosBefore(n, k) ==
    {j \in 1..k : /\ rd.log[j].err = "nil"
                  /\ rd.log[j].fr[1][4] # <<>>
                  /\ rd.log[j].fr[1][4][1][1] = n}

Last(S) == CHOOSE j \in S : \A i \in S : i <= j

(***************************************************************************)
(* C22: once the context is cancelled the read loop terminates within a    *)
(* bounded number of read deadlines, also when part of a frame is buffered *)
(* and the line then delivers nothing: with the start of a frame buffered, *)
(* fewer than MaxWaits deadlines pass after the cancellation.              *)
(***************************************************************************)
C22_CancelBounded ==
    IF frm.buf # <<>> THEN frm.buf[1] = Magic1 => rd.waits < MaxWaits
    ELSE TRUE

(***************************************************************************)
(* C23: a framing error or a decode error in the read loop stays inside    *)
(* it: the step that handles it publishes nothing, leaves connected as it  *)
(* is and returns the loop to its select; a Packet frame the device writes *)
(* after such an error has been handled is published once the line is      *)
(* drained.                                                                *)
(***************************************************************************)
C23_ErrorsContained ==
    /\ [](Quiet =>
            \A w \in DOMAIN io.wrote :
               (/\ io.wrote[w].id # 0
                /\ \E j \in ErrorsIn(rd.log) : j <= io.wrote[w].at)
               => \E q \in DOMAIN drv.queue :
                     drv.queue[q].ID = [hi |-> 0, lo |-> io.wrote[w].id])
    /\ [][(/\ Len(rd'.log) = Len(rd.log) + 1
           /\ IsError(rd'.log[Len(rd'.log)]))
          => /\ drv'.queue = drv.queue
             /\ drv'.connected = drv.connected
             /\ drv'.closed = drv.closed
             /\ ~drv'.panicked
             /\ drv'.readers[1] = "select"]_vars

C23_Witness ==
    /\ Quiet
    /\ drv.connected
    /\ Len(rd.log) = 2
    /\ rd.log[1].err = "PacketTooLarge"
    /\ io.wrote[2].at = 1
    /\ Len(drv.queue) = 1
    /\ drv.queue[1].ID = [hi |-> 0, lo |-> 1]

(***************************************************************************)
(* C26: a published packet whose sender was in the node database when it   *)
(* was dispatched carries that entry as FromNode, and it is a snapshot: a  *)
(* NodeInfo frame handled later changes no packet already published.       *)
(***************************************************************************)
C26_FromNodeSnapshot ==
    /\ [](\A q \in DOMAIN drv.queue :
            LET pkt == drv.queue[q]
                known == NodeInfosBefore(pkt.From, FrameOf(pkt))
            IN known # {} =>
                 pkt.FromNode =
                   << FromMeshtasticNodeInfo(rd.log[Last(known)].fr[1][4][1]) >>)
    /\ [][\A q \in DOMAIN drv.queue :
             q \in DOMAIN drv'.queue /\ drv'.queue[q] = drv.queue[q]]_vars

C26_Witness ==
    /\ Len(drv.queue) = 2
    /\ drv.queue[1].FromNode # <<>>
    /\ drv.queue[1].FromNode[1].LastHeard = [hi |-> 0, lo |-> 10]
    /\ drv.queue[2].FromNode[1].LastHeard = [hi |-> 0, lo |-> 20]
    /\ DOMAIN rd.nodeDB = {[hi |-> 0, lo |-> 42]}

(***************************************************************************)
(* The simulated device: one session from Start to Stop.  Its read loop    *)
(* handles the ToRadio frames the host sent; SendTextMessage and           *)
(* SendPosition are called by a test and by the ticker of messageLoop.     *)
(* d.packetID is read and written without a lock that excludes the other   *)
(* goroutines, so every load and store of it is a step of its own.         *)
(***************************************************************************)
MaxSends == 1

\* The goroutines that call SendTextMessage or SendPosition while the
\* readLoop runs: the test, or messageLoop on its ticker.
Senders == {"caller"}

\* handleToRadio: the want_config_id values it calls sendConfig with, in
\* order, and how its loop ends.
RECURSIVE ScanToRadio(_, _, _, _)
ScanToRadio(data, pos, reqs, seen) ==
    IF pos >= Len(data) THEN [err |-> "nil", reqs |-> reqs]
    ELSE IF pos < 0 THEN [err |-> "panic", reqs |-> reqs]
    ELSE IF pos \in seen THEN [err |-> "hang", reqs |-> reqs]
    ELSE
    LET tag == data[pos + 1]
        fieldNum == tag \div 8
        wireType == tag % 8
        p1 == pos + 1
        v == decodeVarint(SubSeq(data, p1 + 1, Len(data)))
        p2 == p1 + v.n
    IN CASE wireType = 0 ->
              ScanToRadio(data, p2,
                          IF fieldNum = 3 /\ ~IsZero64(v.val)
                          THEN Append(reqs, Uint32(v.val)) ELSE reqs,
                          seen \cup {pos})
         [] wireType = 2 ->
              ScanToRadio(data, AddInt(p2, v.val), reqs, seen \cup {pos})
         [] OTHER ->
              ScanToRadio(data, p1, reqs, seen \cup {pos})

handleToRadio(data) == ScanToRadio(data, 0, <<>>, {})

\* Mutant of AlreadySent: the guard of sendConfig never holds.
AlreadySent_Never(d) == FALSE

\* sendConfig: if d.configSent { return }
AlreadySent(d) == d.configSent

FromRadioFrame(kind, num) == [kind |-> kind, num |-> num, mesh |-> 0, id |-> 0]

\* createTextMessagePacket / createPositionPacket: both reach the wire as
\* the packet variant of FromRadio, from the node given.
MeshPacketFrame(kind, fromNode) ==
    IF kind \in {"Text", "Position"} THEN FromRadioFrame("Packet", fromNode)
    ELSE FromRadioFrame("none", 0)

\* Mutant of ConfigFrames: the own NodeInfo is sent after the peers'.
ConfigFrames_OwnLast(config, configID) ==
    << FromRadioFrame("MyInfo", config.NodeNum) >>
    \o [i \in DOMAIN config.SimulatedNodes |->
           FromRadioFrame("NodeInfo", config.SimulatedNodes[i])]
    \o << FromRadioFrame("NodeInfo", config.NodeNum),
          FromRadioFrame("ConfigComplete", configID) >>

\* sendConfig: the sendFromRadio calls it makes, in order.
ConfigFrames(config, configID) ==
    << FromRadioFrame("MyInfo", config.NodeNum),
       FromRadioFrame("NodeInfo", config.NodeNum) >>
    \o [i \in DOMAIN config.SimulatedNodes |->
           FromRadioFrame("NodeInfo", config.SimulatedNodes[i])]
    \o << FromRadioFrame("ConfigComplete", configID) >>

\* A goroutine's registers: where it is, the packetID it loaded, the frame
\* it is about to send.
IdleTask == [pc |-> "idle", reg |-> 0, frame |-> FromRadioFrame("none", 0), sends |-> 0]

\* New and Start: the device of a running session, with the ToRadio frames
\* the host will have written to it.
NewDevice(config, start, inbox) ==
    [ running |-> TRUE,
      config |-> config,
      pty |-> TRUE,              \* d.pty is open
      stopClosed |-> FALSE,      \* d.stopCh is closed
      configSent |-> FALSE,
      packetID |-> start,
      inbox |-> inbox,           \* ToRadio frames not yet read
      consumed |-> <<>>,         \* ToRadio frames handleToRadio was given
      wire |-> <<>>,             \* FromRadio frames written, in order
      reader |-> [pc |-> "select", reqs |-> <<>>, err |-> "nil",
                  configID |-> 0, step |-> 0],
      task |-> [t \in Senders \cup {"reader"} |-> IdleTask],
      calls |-> 0,               \* sendConfig calls
      runs |-> 0,                \* sendConfig calls that passed the guard
      wait |-> "none" ]          \* WaitForConfig: "none", "true" or "false"

\* sendFromRadio and the d.packetID++ before it: l is the goroutine's
\* registers, d the device.  The increment is a load and a store; the read
\* of d.packetID that builds the MeshPacket is taken with the store before
\* it, and the read that builds the FromRadio with the write after it.
SendStep(l, d) ==
    CASE l.pc = "p_load" ->
           [l |-> [l EXCEPT !.pc = "p_store", !.reg = d.packetID], d |-> d]
      [] l.pc = "p_store" ->
           [l |-> [l EXCEPT !.pc = "f_load", !.frame.mesh = l.reg + 1],
            d |-> [d EXCEPT !.packetID = l.reg + 1]]
      [] l.pc = "f_load" ->
           [l |-> [l EXCEPT !.pc = "f_store", !.reg = d.packetID], d |-> d]
      [] l.pc = "f_store" ->
           [l |-> [l EXCEPT !.pc = "f_write"],
            d |-> [d EXCEPT !.packetID = l.reg + 1]]
      [] l.pc = "f_write" ->
           [l |-> [l EXCEPT !.pc = "ret", !.frame = FromRadioFrame("none", 0),
                            !.reg = 0],
            d |-> IF d.pty
                  THEN [d EXCEPT !.wire = Append(d.wire,
                                             [l.frame EXCEPT !.id = d.packetID])]
                  ELSE d]

Sending(l) == l.pc \in {"p_load", "p_store", "f_load", "f_store", "f_write"}

SimOnly ==
    /\ UNCHANGED << cfg, capacity, traffic, budget, frm, io, dec, rd,
                    mq, file, apprise >>
    /\ UNCHANGED drvVars /\ UNCHANGED svcVars

\* SendTextMessage / SendPosition are called: under the read lock, an error
\* when the device is not running, else the first d.packetID++ is next.
SendCall(t) ==
    /\ sim.task[t].pc = "idle"
    /\ sim.task[t].sends < MaxSends
    /\ \E kind \in {"Text", "Position"}, i \in {1} :
         sim' = IF ~sim.running
                THEN [sim EXCEPT !.task[t].sends = @ + 1]
                ELSE [sim EXCEPT !.task[t] =
                        [@ EXCEPT !.pc = "p_load",
                                  !.frame = MeshPacketFrame(kind,
                                               sim.config.SimulatedNodes[i])]]
    /\ UNCHANGED cancelled
    /\ SimOnly

\* The next memory access of a call in progress; the call returns after
\* its write.
SendRun(t) ==
    /\ Sending(sim.task[t])
    /\ LET x == SendStep(sim.task[t], sim)
       IN sim' = IF x.l.pc = "ret"
                 THEN [x.d EXCEPT !.task[t] = [x.l EXCEPT !.pc = "idle",
                                                          !.sends = @ + 1]]
                 ELSE [x.d EXCEPT !.task[t] = x.l]
    /\ UNCHANGED cancelled
    /\ SimOnly

\* readLoop: the select, then ReadPacket and handleToRadio's parse of what
\* it returned.
DeviceRead ==
    /\ sim.reader.pc = "select"
    /\ IF cancelled \/ sim.stopClosed
       THEN sim' = [sim EXCEPT !.reader.pc = "done"]
       ELSE /\ sim.pty /\ sim.inbox # <<>>
            /\ LET h == handleToRadio(Head(sim.inbox).data)
               IN sim' = [sim EXCEPT !.inbox = Tail(sim.inbox),
                                     !.consumed = Append(sim.consumed, Head(sim.inbox)),
                                     !.reader = [@ EXCEPT !.pc = "handle",
                                                          !.reqs = h.reqs,
                                                          !.err = h.err]]
    /\ UNCHANGED cancelled
    /\ SimOnly

\* handleToRadio reaches its next field 3 and calls sendConfig, whose
\* guard runs under the write lock; or it reaches the end of the frame.
DeviceHandle ==
    /\ sim.reader.pc = "handle"
    /\ IF sim.reader.reqs = <<>>
       THEN sim' = [sim EXCEPT !.reader.pc =
                       CASE sim.reader.err = "panic" -> "crashed"
                         [] sim.reader.err = "hang" -> "hung"
                         [] OTHER -> "select"]
       ELSE /\ \A t \in Senders : ~Sending(sim.task[t])
            /\ sim' = IF AlreadySent(sim)
                      THEN [sim EXCEPT !.reader.reqs = Tail(@),
                                       !.calls = @ + 1]
                      ELSE LET id == Head(sim.reader.reqs).lo
                           IN [sim EXCEPT
                                 !.configSent = TRUE,
                                 !.calls = @ + 1,
                                 !.runs = @ + 1,
                                 !.reader = [@ EXCEPT !.pc = "cfg", !.configID = id,
                                                      !.step = 1],
                                 !.task["reader"] =
                                    [@ EXCEPT !.pc = "f_load",
                                              !.frame = ConfigFrames(sim.config, id)[1]]]
    /\ UNCHANGED cancelled
    /\ SimOnly

\* sendConfig: the next memory access of its current sendFromRadio, then
\* the next frame, then the return to handleToRadio.
DeviceConfigSend ==
    /\ sim.reader.pc = "cfg"
    /\ LET x == SendStep(sim.task["reader"], sim)
           frames == ConfigFrames(sim.config, sim.reader.configID)
       IN sim' = IF x.l.pc # "ret"
                 THEN [x.d EXCEPT !.task["reader"] = x.l]
                 ELSE IF sim.reader.step < Len(frames)
                 THEN [x.d EXCEPT !.reader.step = @ + 1,
                                  !.task["reader"] =
                                     [x.l EXCEPT !.pc = "f_load",
                                                 !.frame = frames[sim.reader.step + 1]]]
                 ELSE [x.d EXCEPT !.reader = [@ EXCEPT !.pc = "handle",
                                                       !.reqs = Tail(@)],
                                  !.task["reader"] = [x.l EXCEPT !.pc = "idle"]]
    /\ UNCHANGED cancelled
    /\ SimOnly

\* TestDevice.Stop: cancel, then Device.Stop under the write lock.
DeviceStop ==
    /\ sim.running
    /\ \A t \in Senders : ~Sending(sim.task[t])
    /\ cancelled' = TRUE
    /\ sim' = [sim EXCEPT !.running = FALSE, !.stopClosed = TRUE, !.pty = FALSE]
    /\ SimOnly

\* WaitForConfig returns: true on reading configSent set, false when the
\* deadline has passed without.
WaitForConfig ==
    /\ sim.wait = "none"
    /\ \/ /\ sim.configSent
          /\ sim' = [sim EXCEPT !.wait = "true"]
       \/ /\ ~sim.configSent
          /\ sim' = [sim EXCEPT !.wait = "false"]
    /\ UNCHANGED cancelled
    /\ SimOnly

\* ToRadio frames: want_config_id v, a packet whose payload holds the
\* bytes of such a field, and a heartbeat.  want is what the frame asks.
ToRadio(data, want) == [data |-> data, want |-> want]
WantConfig(v) == ToRadio(encodeUint32(3, v), v)
PacketToRadio == ToRadio(encodeBytes(1, encodeUint32(3, 5)), 0)
Heartbeat == ToRadio(encodeBytes(7, <<>>), 0)
HostScripts ==
    { <<>>, << WantConfig(5) >>, << WantConfig(7), WantConfig(5) >>,
      << WantConfig(0), WantConfig(7) >>, << PacketToRadio >>,
      << Heartbeat, WantConfig(0) >> }

DeviceConfigs ==
    [NodeNum : {1}, SimulatedNodes : {<< 2, 3 >>}, MessageInterval : {0}]

InitSimulator ==
    /\ cfg = [connType |-> "serial", filters |-> NoFilter,
              outputs |-> << Sink("ok") >>]
    /\ capacity = ModelCap
    /\ traffic = {}
    /\ budget = 0
    /\ InitState
    /\ frm = NewStreamFramer
    /\ mq = NoParse /\ file = NoFile /\ apprise = NoApprise
    /\ dec = NoDecode
    /\ rd = NoReadLoop
    /\ io = NoStream
    /\ sim \in {NewDevice(c, 0, inbox) :
                   c \in DeviceConfigs, inbox \in HostScripts}

NextSimulator ==
    \/ \E t \in Senders : SendCall(t)
    \/ \E t \in Senders : SendRun(t)
    \/ DeviceRead
    \/ DeviceHandle
    \/ DeviceConfigSend
    \/ DeviceStop
    \/ WaitForConfig

SpecSimulator == InitSimulator /\ [][NextSimulator]_vars

\* The frames of the session that asked for the configuration, and the
\* frames of the config-send sequence on the wire, ids left aside.
Triggers == SelectSeq(sim.consumed, LAMBDA f : f.want > 0)

KindNum(f) == [kind |-> f.kind, num |-> f.num]

ConfigOnWire ==
    LET w == SelectSeq(sim.wire, LAMBDA f : f.kind # "Packet")
    IN [i \in DOMAIN w |-> KindNum(w[i])]

CountOnWire(kind) == Len(SelectSeq(sim.wire, LAMBDA f : f.kind = kind))

\* C27: within one session the config-send sequence runs at most once,
\* however many ToRadio frames with want_config_id > 0 were handled; it
\* has run once as soon as sendConfig was called for such a frame; and no
\* frame with want_config_id = 0 or without field 3 starts it.  The frames
\* are ToRadio messages as a protobuf encoder writes them.
C27_ConfigOnce ==
    /\ sim.runs <= 1
    /\ sim.runs = 1 <=> sim.calls >= 1
    /\ sim.calls >= 1 => Triggers # <<>>
    /\ sim.reader.pc = "select" => (sim.runs = 1 <=> Triggers # <<>>)
    /\ sim.reader.pc = "select" => sim.calls = Len(Triggers)
    /\ CountOnWire("MyInfo") <= sim.runs
    /\ CountOnWire("ConfigComplete") <= sim.runs

\* C27 witness: two frames asked for the configuration, both were handled
\* to their end, and the sequence was written once.
C27_Witness ==
    /\ Len(Triggers) = 2
    /\ sim.calls = 2
    /\ sim.reader.pc = "select"
    /\ CountOnWire("ConfigComplete") = 1

\* C28: the config frames on the wire are, in this order, MyNodeInfo, the
\* NodeInfo of the simulator's own node, one NodeInfo per configured peer
\* in configured order, and ConfigCompleteId with the want_config_id of
\* the frame that started the sequence; all of them once sendConfig has
\* returned with the pty still open.
C28_ConfigOrder ==
    LET c == sim.config
        expected ==
            << [kind |-> "MyInfo", num |-> c.NodeNum],
               [kind |-> "NodeInfo", num |-> c.NodeNum] >>
            \o [i \in DOMAIN c.SimulatedNodes |->
                   [kind |-> "NodeInfo", num |-> c.SimulatedNodes[i]]]
            \o << [kind |-> "ConfigComplete", num |-> Triggers[1].want] >>
    IN IF Triggers = <<>> THEN ConfigOnWire = <<>>
       ELSE /\ IsPrefix(ConfigOnWire, expected)
            /\ (sim.runs = 1 /\ sim.reader.pc # "cfg" /\ sim.pty)
                  => ConfigOnWire = expected

\* C28 witness: the whole sequence is on the wire for the first of two
\* requests, with a packet of SendTextMessage written in between.
C28_Witness ==
    /\ Len(Triggers) = 2
    /\ Len(ConfigOnWire) = 3 + Len(sim.config.SimulatedNodes)
    /\ sim.wire[Len(sim.wire)].kind = "ConfigComplete"
    /\ sim.wire[Len(sim.wire)].num = Triggers[1].want
    /\ \E i \in DOMAIN sim.wire : sim.wire[i].kind = "Packet"

\* C29: of any two frames the simulator wrote to the wire, the one
\* written later carries the larger packet id.
C29_IdsIncrease ==
    \A i, j \in DOMAIN sim.wire : i < j => sim.wire[i].id < sim.wire[j].id

\* C30: WaitForConfig has returned true only if every frame of the
\* config-send sequence, ConfigCompleteId included, was written before.
C30_WaitMeansSent ==
    sim.wait = "true" => CountOnWire("ConfigComplete") >= 1

(***************************************************************************)
(* Relay service: failed Start, statistics.                                *)
(***************************************************************************)
StartFailed == lastStart \in {"err_outputs", "err_connection", "err_connect"}

\* C36: after a Start call that returned an error the service is not
\* running, so IsRunning reports false and the next Start is not answered
\* "already running".
C36_FailedStartNotRunning ==
    /\ [](StartFailed => ~running)
    /\ [][StartFailed => lastStart' # "already"]_vars

\* The relay loop holds a packet it has received and not yet filtered out
\* or handed to every sink.
MidDispatch == loop.pc \in {"filter", "send"}

C37_NoPublishAfterClose == [][nextId' # nextId => ~drv.closed]_vars

(***************************************************************************)
(* MQTT: parsePortNum.  A string is the sequence of its characters.        *)
(***************************************************************************)
MaxCalls == 3

PortNumUnknown == 0

LowerCase == << "a", "b", "c", "d", "e", "f", "g", "h", "i", "j", "k", "l", "m", "n", "o", "p", "q", "r", "s", "t", "u", "v", "w", "x", "y", "z" >>
UpperCase == << "A", "B", "C", "D", "E", "F", "G", "H", "I", "J", "K", "L", "M", "N", "O", "P", "Q", "R", "S", "T", "U", "V", "W", "X", "Y", "Z" >>

\* strings.ToUpper
ToUpper(str) ==
    [i \in DOMAIN str |->
        IF \E c \in DOMAIN LowerCase : LowerCase[c] = str[i]
        THEN UpperCase[CHOOSE c \in DOMAIN LowerCase : LowerCase[c] = str[i]]
        ELSE str[i]]

\* strings.Contains
Contains(str, substr) ==
    \E i \in 0..(Len(str) - Len(substr)) :
        SubSeq(str, i + 1, i + Len(substr)) = substr

\* portMap: the pairs of key and PortNum.
portMap ==
    { << << "T", "E", "X", "T", "_", "M", "E", "S", "S", "A", "G", "E", "_", "A", "P", "P" >>,
         PortNumTextMessage >>,
      << << "T", "E", "X", "T" >>,
         PortNumTextMessage >>,
      << << "P", "O", "S", "I", "T", "I", "O", "N", "_", "A", "P", "P" >>,
         PortNumPosition >>,
      << << "P", "O", "S", "I", "T", "I", "O", "N" >>,
         PortNumPosition >>,
      << << "N", "O", "D", "E", "I", "N", "F", "O", "_", "A", "P", "P" >>,
         PortNumNodeInfo >>,
      << << "N", "O", "D", "E", "I", "N", "F", "O" >>,
         PortNumNodeInfo >>,
      << << "T", "E", "L", "E", "M", "E", "T", "R", "Y", "_", "A", "P", "P" >>,
         PortNumTelemetry >>,
      << << "T", "E", "L", "E", "M", "E", "T", "R", "Y" >>,
         PortNumTelemetry >>,
      << << "R", "O", "U", "T", "I", "N", "G", "_", "A", "P", "P" >>,
         PortNumRouting >>,
      << << "R", "O", "U", "T", "I", "N", "G" >>,
         PortNumRouting >>,
      << << "T", "R", "A", "C", "E", "R", "O", "U", "T", "E", "_", "A", "P", "P" >>,
         PortNumTraceroute >>,
      << << "T", "R", "A", "C", "E", "R", "O", "U", "T", "E" >>,
         PortNumTraceroute >>,
      << << "N", "E", "I", "G", "H", "B", "O", "R", "I", "N", "F", "O", "_", "A", "P", "P" >>,
         PortNumNeighborInfo >>,
      << << "N", "E", "I", "G", "H", "B", "O", "R", "I", "N", "F", "O" >>,
         PortNumNeighborInfo >> }

\* parsePortNum: the values a call may return.  The lookup by type is a
\* map index; the search of the topic ranges over the map, whose iteration
\* order Go leaves unspecified and randomises, and returns at the first
\* key the topic contains.
parsePortNum(typeStr, topic) ==
    LET hit == {e \in portMap : e[1] = ToUpper(typeStr)}
        found == {e \in portMap : Contains(ToUpper(topic), e[1])}
    IN IF hit # {} THEN {e[2] : e \in hit}
       ELSE IF found # {} THEN {e[2] : e \in found}
       ELSE {PortNumUnknown}

\* The type strings and topics of the messages parsed.
TypeStrings ==
    { <<>>,
      << "t", "e", "x", "t" >>,
      << "P", "O", "S", "I", "T", "I", "O", "N", "_", "A", "P", "P" >>,
      << "s", "e", "n", "s", "o", "r" >> }

Topics ==
    { << "m", "s", "h", "/", "U", "S", "/", "j", "s", "o", "n", "/", "t", "e", "x", "t" >>,
      << "m", "s", "h", "/", "u", "s", "/", "P", "o", "s", "i", "t", "i", "o", "n", "/", "!", "a" >>,
      << "m", "s", "h", "/", "t", "e", "x", "t", "/", "p", "o", "s", "i", "t", "i", "o", "n" >>,
      << "m", "s", "h", "/", "2", "/", "e", "/", "L", "o", "n", "g", "F", "a", "s", "t" >>,
      << "m", "s", "h", "/", "n", "o", "d", "e", "i", "n", "f", "o", "_", "a", "p", "p" >>,
      << "m", "s", "h", "/", "t", "e", "l", "e", "m", "e", "t", "r", "y", "/", "r", "o", "u", "t", "i", "n", "g" >> }

\* parseMessage calls parsePortNum once more with the same arguments.
ParsePortNumCall ==
    /\ mq.called
    /\ Len(mq.results) < MaxCalls
    /\ \E r \in parsePortNum(mq.typeStr, mq.topic) :
         mq' = [mq EXCEPT !.results = Append(@, r)]
    /\ UNCHANGED << cfg, capacity, traffic, budget, frm, io, dec, rd, sim,
                    file, apprise, cancelled >>
    /\ UNCHANGED drvVars /\ UNCHANGED svcVars

InitPortNum ==
    /\ cfg = [connType |-> "mqtt", filters |-> NoFilter,
              outputs |-> << Sink("ok") >>]
    /\ capacity = ModelCap
    /\ traffic = {}
    /\ budget = 0
    /\ InitState
    /\ frm = NewStreamFramer /\ io = NoStream /\ dec = NoDecode
    /\ rd = NoReadLoop /\ sim = NoDevice /\ file = NoFile /\ apprise = NoApprise
    /\ mq \in [called : {TRUE}, typeStr : TypeStrings, topic : Topics,
               results : {<<>>}]

NextPortNum == ParsePortNumCall

SpecPortNum == InitPortNum /\ [][NextPortNum]_vars

\* C40: for a given type string and topic every call of parsePortNum
\* returns the same PortNum.
C40_PortNumFunction ==
    \A i, j \in DOMAIN mq.results : mq.results[i] = mq.results[j]

(***************************************************************************)
(* C35: without SyncToMagic, ReadPacket finds the frame by itself.  For a  *)
(* stream of k bytes holding no adjacent 0x94 0xC3, followed by a valid    *)
(* frame, the first k calls of ReadPacket that return a result return      *)
(* InvalidMagic and the next one returns the frame's payload.              *)
(***************************************************************************)
NoMagicPair(g) == \A i \in 1..(Len(g) - 1) : ~(g[i] = Magic1 /\ g[i + 1] = Magic2)

C35_SelfResync ==
    (io.garbage # <<>> /\ NoMagicPair(io.garbage)) =>
        \A i \in DOMAIN frm.calls :
           /\ i <= Len(io.garbage) =>
                 frm.calls[i] = Call("read", "InvalidMagic", <<>>)
           /\ i = Len(io.garbage) + 1 =>
                 /\ Accepted # <<>>
                 /\ frm.calls[i] = Call("read", "nil", Accepted[1])

\* C35 witness: five bytes of garbage, five InvalidMagic, then the payload.
C35_Witness ==
    /\ io.garbage = << 0, 1, 2, 3, 255 >>
    /\ Len(frm.calls) = 6
    /\ \A i \in 1..5 : frm.calls[i].res = "InvalidMagic"
    /\ frm.calls[6] = Call("read", "nil", Text)
    /\ frm.pc = "idle"

(***************************************************************************)
(* The decoder on what the simulator's encoders produce.                   *)
(***************************************************************************)
\* 32-bit values: small ones, the ends of the one- to five-byte varints,
\* 0xAABBCCDD and 0xFFFFFFFF.
V32 ==
    { 0, 1, 127, 128, 300, 268435455, 268435456, 2147483647,
      -2147483647 - 1, -1430532899, -1 }

\* A uint32 as the decoder's result holds it.
ToU32(v) == [hi |-> (v \div 268435456) % 16, lo |-> v % 268435456]

Names == { <<>>, << 65, 108 >>, << 84, 101, 115, 116, 32, 78, 111, 100, 101 >> }

PayloadBytes == { <<>>, << 72, 101, 108, 108, 111 >>, << Magic1, Magic2, 0, 255 >> }

\* An encoded FromRadio and the fields populated in it: the path of field
\* numbers to each and the value encoded.
Encoded(data, want) ==
    [data |-> data, ref |-> data, kind |-> "encoded", pc |-> "idle",
     res |-> <<>>, refRes |-> <<>>, want |-> want]

EncodedInputs ==
    { Encoded(EncodeFromRadio(id, <<>>, <<>>, <<>>, cc),
              << << << 1 >>, ToU32(id) >>, << << 8 >>, ToU32(cc) >> >>) :
         id \in V32, cc \in V32 }
    \cup
    { Encoded(EncodeFromRadio(1, <<>>, EncodeMyNodeInfo(n, r), <<>>, 0),
              << << << 3, 1 >>, ToU32(n) >>, << << 3, 8 >>, ToU32(r) >> >>) :
         n \in V32, r \in V32 }
    \cup
    { Encoded(EncodeFromRadio(2, <<>>, <<>>,
                 EncodeNodeInfo(num, EncodeUser(<< 33, 97 >>, name, << 65 >>, 0),
                                <<>>, 0, 20), 0),
              << << << 4, 1 >>, ToU32(num) >>, << << 4, 2, 2 >>, name >> >>) :
         num \in V32, name \in Names }
    \cup
    UNION { { Encoded(EncodeFromRadio(100,
                         EncodeMeshPacket(from, to, 0, id,
                                          EncodeData(port, payload), 0, 0, 0, 3),
                         <<>>, <<>>, 1),
                      << << << 1 >>, ToU32(100) >>, << << 8 >>, ToU32(1) >>,
                         << << 2, 1 >>, ToU32(from) >>, << << 2, 2 >>, ToU32(to) >>,
                         << << 2, 6 >>, ToU32(id) >>,
                         << << 2, 4, 1 >>, ToU32(port) >>,
                         << << 2, 4, 2 >>, payload >> >>) :
                 from \in V32, to \in V32 } :
            id \in {0, 12345, -1}, port \in {1, 3, 67, -1},
            payload \in PayloadBytes }

InitRoundTrip ==
    /\ cfg = [connType |-> "serial", filters |-> NoFilter,
              outputs |-> << Sink("ok") >>]
    /\ capacity = ModelCap
    /\ traffic = {}
    /\ budget = 0
    /\ InitState
    /\ frm = NewStreamFramer /\ io = NoStream /\ rd = NoReadLoop
    /\ sim = NoDevice /\ mq = NoParse /\ file = NoFile /\ apprise = NoApprise
    /\ dec \in EncodedInputs

SpecRoundTrip == InitRoundTrip /\ [][NextDecoder]_vars

\* The field of a decoded message at a path of field numbers, a message
\* field being absent (<<>>) or << message >>.
RECURSIVE Present(_, _)
Present(msg, path) ==
    IF Len(path) = 1 THEN TRUE
    ELSE IF msg[Head(path)] = <<>> THEN FALSE
    ELSE Present(msg[Head(path)][1], Tail(path))

RECURSIVE FieldAt(_, _)
FieldAt(msg, path) ==
    IF Len(path) = 1 THEN msg[Head(path)]
    ELSE FieldAt(msg[Head(path)][1], Tail(path))

\* C32: ParseFromRadio of an encoded FromRadio returns, without error, the
\* value that was encoded in every field the encoders populated: id and
\* config_complete_id, my_node_num and reboot_count, NodeInfo num and
\* user.long_name, MeshPacket from, to, id and Data port and payload.
C32_DecodeInvertsEncode ==
    dec.pc = "done" =>
       /\ dec.res.err = "nil"
       /\ \A i \in DOMAIN dec.want :
             /\ Present(dec.res.msg[1], dec.want[i][1])
             /\ FieldAt(dec.res.msg[1], dec.want[i][1]) = dec.want[i][2]

\* C32 witness: a packet from 0xAABBCCDD to 0xFFFFFFFF with id 12345 and a
\* text payload was encoded and decoded.
C32_Witness ==
    /\ dec.pc = "done"
    /\ dec.data = EncodeFromRadio(100,
                     EncodeMeshPacket(-1430532899, -1, 0, 12345,
                                      EncodeData(1, << 72, 101, 108, 108, 111 >>),
                                      0, 0, 0, 3),
                     <<>>, <<>>, 1)
    /\ dec.res.err = "nil"
    /\ dec.res.msg[1][2][1][1] = [hi |-> 10, lo |-> 180079837]
    /\ dec.res.msg[1][2][1][4][1][2] = << 72, 101, 108, 108, 111 >>

(***************************************************************************)
(* The file sink.  A file on disk is [e, c]: whether it exists and its     *)
(* lines, each [id, len] with len its length in bytes.  disk[0] is path,   *)
(* disk[n] is path.n.                                                      *)
(***************************************************************************)
MaxLines == 3

MaxSuffix == 4

MiB == 1048576

Absent == [e |-> FALSE, c |-> <<>>]

RECURSIVE Size(_)
Size(c) == IF c = <<>> THEN 0 ELSE Head(c).len + Size(Tail(c))

\* os.Rename with its error ignored: nothing happens when old is missing,
\* else new is replaced.
Rename(disk, old, new) ==
    IF ~disk[old].e THEN disk
    ELSE [disk EXCEPT ![new] = disk[old], ![old] = Absent]

\* checkRotation: for i := f.maxBackups - 1; i >= 1; i--
RECURSIVE ShiftBackups(_, _)
ShiftBackups(disk, i) ==
    IF i < 1 THEN disk ELSE ShiftBackups(Rename(disk, i, i + 1), i - 1)

\* os.OpenFile(path, O_APPEND|O_CREATE|O_WRONLY)
OpenAppend(disk) ==
    IF disk[0].e THEN disk ELSE [disk EXCEPT ![0] = [e |-> TRUE, c |-> <<>>]]

checkRotation(f) ==
    IF Size(f.disk[0].c) < f.maxSizeMB * MiB THEN f
    ELSE [f EXCEPT !.disk =
            OpenAppend(Rename(ShiftBackups(f.disk, f.maxBackups - 1), 0, 1))]

\* File.Send: the rotation check, then the line is appended.
Send(f, line) ==
    LET g == IF f.rotate THEN checkRotation(f) ELSE f
    IN [g EXCEPT !.disk[0].c = Append(@, line), !.sent = f.sent + 1]

FileSend ==
    /\ file.open
    /\ file.sent < MaxLines
    /\ file' = Send(file, [id |-> file.sent + 1, len |-> 1])
    /\ UNCHANGED << cfg, capacity, traffic, budget, frm, io, dec, rd, sim,
                    mq, apprise, cancelled >>
    /\ UNCHANGED drvVars /\ UNCHANGED svcVars

\* NewFile over what is on disk before: path missing, short, one byte
\* below the threshold of 1 MiB, or at it, and b backups.
Existing == { <<>>, << [id |-> 0, len |-> MiB - 1] >>, << [id |-> 0, len |-> MiB] >> }

NewFile(rotate, maxSizeMB, maxBackups, c, b) ==
    [ open |-> TRUE, rotate |-> rotate, maxSizeMB |-> maxSizeMB,
      maxBackups |-> maxBackups, sent |-> 0,
      disk |-> [n \in 0..MaxSuffix |->
                  IF n = 0 THEN [e |-> TRUE, c |-> c]
                  ELSE IF n <= b THEN [e |-> TRUE, c |-> << [id |-> 0 - n, len |-> 1] >>]
                  ELSE Absent] ]

InitFile ==
    /\ cfg = [connType |-> "serial", filters |-> NoFilter,
              outputs |-> << Sink("ok") >>]
    /\ capacity = ModelCap
    /\ traffic = {}
    /\ budget = 0
    /\ InitState
    /\ frm = NewStreamFramer /\ io = NoStream /\ dec = NoDecode
    /\ rd = NoReadLoop /\ sim = NoDevice /\ mq = NoParse /\ apprise = NoApprise
    /\ file \in UNION { { NewFile(r, m, k, c, b) : r \in BOOLEAN, m \in {0, 1},
                                                  c \in Existing, b \in 0..k } :
                        k \in 0..(MaxSuffix - 1) }

NextFile == FileSend

SpecFile == InitFile /\ [][NextFile]_vars

\* C33: a send that finds rotation enabled and the file at or above
\* max_size_mb x 1,048,576 bytes moves each existing backup .n to .n+1
\* (n below max_backups), the file to path.1 and leaves path with the new
\* line only; no backup has a suffix outside .1 .. .max_backups.
C33_Rotation ==
    [][(/\ file.open
        /\ file'.sent = file.sent + 1
        /\ file.rotate
        /\ Size(file.disk[0].c) >= file.maxSizeMB * MiB)
       => /\ \A n \in 1..(file.maxBackups - 1) :
                file.disk[n].e => file'.disk[n + 1] = file.disk[n]
          /\ file'.disk[1] = file.disk[0]
          /\ file'.disk[0] = [e |-> TRUE,
                              c |-> << [id |-> file'.sent, len |-> 1] >>]
          /\ \A n \in 1..MaxSuffix :
                file'.disk[n].e => n <= file.maxBackups]_vars

(***************************************************************************)
(* The Apprise sink.  channelConfigs maps a channel to its override        *)
(* [Tag, Enabled], Enabled being "nil" when the option is absent.  The url *)
(* is well formed, so building the request does not fail.  sends logs,     *)
(* per call of Send, the channel, the error returned and the HTTP requests *)
(* handed to the client.                                                   *)
(***************************************************************************)
MaxRequests == 2

Channels == 0..3

AppriseChannelConfig == [Tag : {"", "alerts"}, Enabled : {"nil", "true", "false"}]

\* an HTTP status, or -1 when client.Do returns an error
Responses == {200, 204, 500, -1}

ChannelTag_Default(a, ch) == a.tag

\* Send, apprise.go 110-114: the override with enabled explicitly false
ChannelDisabled(a, ch) ==
    IF ch \in DOMAIN a.channelConfigs
    THEN a.channelConfigs[ch].Enabled = "false"
    ELSE FALSE

\* Send, apprise.go 120-123: the override's tag when it is not empty
ChannelTag(a, ch) ==
    IF ch \in DOMAIN a.channelConfigs
    THEN IF a.channelConfigs[ch].Tag # "" THEN a.channelConfigs[ch].Tag ELSE a.tag
    ELSE a.tag

\* client.Do and the status check: nil for a 2xx answer
SendResult(resp) ==
    IF resp = -1 THEN "err"
    ELSE IF resp < 200 \/ resp >= 300 THEN "err" ELSE "nil"

AppriseSend(a, ch, resp) ==
    IF ChannelDisabled(a, ch)
    THEN [a EXCEPT !.sends = Append(@, [channel |-> ch, result |-> "nil",
                                        requests |-> <<>>])]
    ELSE LET req == [method |-> "POST", type |-> "info", tag |-> ChannelTag(a, ch)]
         IN [a EXCEPT !.requests = Append(@, req),
                      !.sends = Append(@, [channel |-> ch,
                                           result |-> SendResult(resp),
                                           requests |-> << req >>])]

AppriseSendCall ==
    /\ "sends" \in DOMAIN apprise
    /\ Len(apprise.sends) < MaxRequests
    /\ \E ch \in Channels, resp \in Responses :
          apprise' = AppriseSend(apprise, ch, resp)
    /\ UNCHANGED << cfg, capacity, traffic, budget, frm, io, dec, rd, sim,
                    mq, file, cancelled >>
    /\ UNCHANGED drvVars /\ UNCHANGED svcVars

NewApprise(tag, channelConfigs) ==
    [tag |-> tag, channelConfigs |-> channelConfigs, requests |-> <<>>,
     sends |-> <<>>]

InitApprise ==
    /\ cfg = [connType |-> "serial", filters |-> NoFilter,
              outputs |-> << Sink("ok") >>]
    /\ capacity = ModelCap
    /\ traffic = {}
    /\ budget = 0
    /\ InitState
    /\ frm = NewStreamFramer /\ io = NoStream /\ dec = NoDecode
    /\ rd = NoReadLoop /\ sim = NoDevice /\ mq = NoParse /\ file = NoFile
    /\ \E tag \in {"meshtastic", "ops"}, D \in SUBSET {2, 3} :
          \E cc \in [D -> AppriseChannelConfig] :
             apprise = NewApprise(tag, cc)

NextApprise == AppriseSendCall

SpecApprise == InitApprise /\ [][NextApprise]_vars

MaxSessions == 2

NewLifecycle ==
    [ running |-> FALSE,
      pty |-> 0,                 \* d.pty
      framer |-> 0,              \* the master d.framer reads
      stopCh |-> 0,              \* d.stopCh
      closedCh |-> {},           \* stop channels closed
      closedPty |-> {},          \* PTYs closed
      sessions |-> 0,            \* Start calls that opened a PTY
      stopped |-> {},            \* sessions whose Stop has returned
      loops |-> <<>>,            \* readLoop goroutines: [pc, session, fault]
      panicked |-> FALSE ]

\* Device.Start
DeviceStart(d) ==
    IF d.running THEN d
    ELSE LET n == d.sessions + 1
         IN [d EXCEPT !.sessions = n, !.pty = n, !.framer = n, !.running = TRUE,
                      !.stopCh = n,
                      !.loops = Append(@, [pc |-> "select", session |-> n,
                                           fault |-> "none"])]

\* Device.Stop
StopDevice(d) ==
    IF ~d.running THEN d
    ELSE [d EXCEPT !.closedCh = @ \cup {d.stopCh}, !.running = FALSE,
                   !.closedPty = @ \cup {d.pty}, !.pty = 0,
                   !.stopped = @ \cup {d.sessions}]

\* One step of readLoop l: the select on ctx.Done and d.stopCh, the
\* SetReadDeadline through d.pty, the ReadPacket through d.framer.
readLoop(l, d, done) ==
    CASE l.pc = "select" ->
           IF done \/ d.stopCh \in d.closedCh THEN [l EXCEPT !.pc = "done"]
           ELSE [l EXCEPT !.pc = "deadline"]
      [] l.pc = "deadline" ->
           IF d.pty = 0 THEN [l EXCEPT !.pc = "panic", !.fault = "nil"]
           ELSE IF d.pty \in d.closedPty
                THEN [l EXCEPT !.pc = "read", !.fault = "closed"]
                ELSE [l EXCEPT !.pc = "read"]
      [] l.pc = "read" ->
           IF d.framer \in d.closedPty
           THEN [l EXCEPT !.pc = "select", !.fault = "closed"]
           ELSE [l EXCEPT !.pc = "select"]

LifeOnly ==
    /\ UNCHANGED << cfg, capacity, traffic, budget, frm, io, dec, rd, mq,
                    file, apprise, cancelled >>
    /\ UNCHANGED drvVars /\ UNCHANGED svcVars

DeviceStartCall ==
    /\ ~sim.panicked
    /\ sim.sessions < MaxSessions \/ sim.running
    /\ sim' = DeviceStart(sim)
    /\ LifeOnly

DeviceStopCall ==
    /\ ~sim.panicked
    /\ sim' = StopDevice(sim)
    /\ LifeOnly

ReadLoopStep(i) ==
    /\ ~sim.panicked
    /\ sim.loops[i].pc \in {"select", "deadline", "read"}
    /\ LET l == readLoop(sim.loops[i], sim, cancelled)
       IN sim' = [sim EXCEPT !.loops[i] = l, !.panicked = (l.pc = "panic")]
    /\ LifeOnly

InitLifecycle ==
    /\ cfg = [connType |-> "serial", filters |-> NoFilter,
              outputs |-> << Sink("ok") >>]
    /\ capacity = ModelCap
    /\ traffic = {}
    /\ budget = 0
    /\ InitState
    /\ frm = NewStreamFramer /\ io = NoStream /\ dec = NoDecode
    /\ rd = NoReadLoop /\ mq = NoParse /\ file = NoFile /\ apprise = NoApprise
    /\ sim = NewLifecycle

NextLifecycle ==
    \/ Cancel
    \/ DeviceStartCall
    \/ DeviceStopCall
    \/ \E i \in 1..MaxSessions :
          IF i \in DOMAIN sim.loops THEN ReadLoopStep(i) ELSE FALSE

SpecLifecycle == InitLifecycle /\ [][NextLifecycle]_vars

\* C38: whatever the interleaving of Stop with a read loop, the loop never
\* goes through the cleared pty reference nor uses the closed master, and
\* a loop that looks at its stop condition after its session's Stop
\* returns, also when Start has been called again.
C38_StopVsReadLoop ==
    /\ [](\A i \in DOMAIN sim.loops : sim.loops[i].fault = "none")
    /\ [][\A i \in DOMAIN sim.loops :
            (/\ sim.loops[i].pc = "select"
             /\ sim.loops[i].session \in sim.stopped
             /\ sim'.loops[i] # sim.loops[i])
            => sim'.loops[i].pc = "done"]_vars

(***************************************************************************)
(* The simulator's text messages through the serial driver.  The device    *)
(* has answered the configuration request: the frames of sendConfig and    *)
(* the frames of SendTextMessage are written to the line, each in one      *)
(* write; the driver's read loop reads, decodes and publishes them and the *)
(* host receives from Messages().                                          *)
(***************************************************************************)
MaxTexts == 2

\* createTextMessagePacket: broadcast, channel 0, hop limit 3, received now
\* with the signal readings drawn.
createTextMessagePacket(fromNode, text, packetID, now, snr, rssi) ==
    EncodeMeshPacket(fromNode, -1, 0, packetID,
                     EncodeData(PortNumTextMessage, text), now, snr, rssi, 3)

\* The SendTextMessage calls of the test, repeated in turn: the node, the
\* text and the readings.  Nodes 0xAABBCCDD and 0x11223344; "Hello from
\* test!", "M2", "".
TextCalls ==
    << [node |-> -1430532899, snr |-> -5, rssi |-> -99,
        text |-> << 72, 101, 108, 108, 111, 32, 102, 114, 111, 109, 32, 116,
                    101, 115, 116, 33 >>],
       [node |-> 287454020, snr |-> 0, rssi |-> -60, text |-> << 77, 50 >>],
       [node |-> -1430532899, snr |-> 14, rssi |-> -64, text |-> <<>>] >>

TextCall(n) == TextCalls[((n - 1) % Len(TextCalls)) + 1]

\* time.Now().Unix(), k seconds into the test
UnixNow(k) == 1700000000 + k

\* The packet ids of frames that carry text start at 11.
SentText(n) ==
    Item(FALSE,
         EncodeFromRadio(10 + n,
            createTextMessagePacket(TextCall(n).node, TextCall(n).text,
                                    10 + n, UnixNow(n), TextCall(n).snr,
                                    TextCall(n).rssi),
            <<>>, <<>>, 0),
         10 + n)

\* What sendConfig writes for node 0x12345678 with no position of its
\* own and the peer 0xAABBCCDD, heard at +5 dB.
SentConfig ==
    << Item(FALSE, EncodeFromRadio(1, <<>>, EncodeMyNodeInfo(305419896, 1), <<>>, 0), 0),
       Item(FALSE,
            EncodeFromRadio(3, <<>>, <<>>,
               EncodeNodeInfo(-1430532899,
                  EncodeUser(<< 33, 97 >>, << 82, 49 >>, << 82 >>, 9),
                  EncodePosition(377849000, -1224094000, 20, UnixNow(0) - 60),
                  1084227584, UnixNow(0) - 60), 0),
            0),
       Item(FALSE, EncodeFromRadio(4, <<>>, <<>>, <<>>, 7), 0) >>

RECURSIVE SentTexts(_)
SentTexts(k) == IF k = 0 THEN <<>> ELSE Append(SentTexts(k - 1), SentText(k))

\* The configuration and then k texts; or the first text while sendConfig
\* is still writing.
DeliveryScripts ==
    { SentConfig \o SentTexts(k) : k \in 1..MaxTexts }
    \cup { << SentConfig[1], SentText(1) >> \o Tail(SentConfig) \o << SentText(2) >> }

InitDelivery ==
    /\ cfg = [connType |-> "serial", filters |-> NoFilter,
              outputs |-> << Sink("ok") >>]
    /\ capacity = ChanCapacity
    /\ traffic = {}
    /\ budget = 0
    /\ cancelled = FALSE
    /\ drv = Connect(NewDriver, cfg.connType, TRUE)
    /\ nextId = 1
    /\ dropped = {}
    /\ lastCall = "connect"
    /\ running = FALSE
    /\ stats = ZeroStats
    /\ connection = "nil"
    /\ outputs = <<>>
    /\ loop = IdleLoop
    /\ sinkLog = [k \in DOMAIN cfg.outputs |-> <<>>]
    /\ taken = <<>>
    /\ relayed = <<>>
    /\ lastStart = "none"
    /\ stopped = FALSE
    /\ frm = NewStreamFramer
    /\ mq = NoParse /\ file = NoFile /\ apprise = NoApprise
    /\ sim = NoDevice
    /\ rd = NoReadLoop
    /\ dec = NoDecode
    /\ io \in {[NoStream EXCEPT !.script = sc] : sc \in DeliveryScripts}

\* The steps of the driver's readLoop goroutine up to the return of
\* ReadPacket, and the state in which the rest of readPacket is due.
ReadLoopReads ==
    \/ ReaderPoll(1)
    \/ LoopReadPacket
    \/ LoopReadData
    \/ LoopReadTemporary
    \/ LoopReadPacketReturn

HandlePending ==
    Alive /\ drv.readers[1] = "reading" /\ rd.called /\ frm.pc = "idle"

NextDelivery ==
    \/ ReadLoopReads
    \/ LoopHandle
    \/ DeviceWrite
    \/ HostRecv

\* The goroutines of the device, the read loop and the receiving host all
\* get to run.  LoopHandle is enabled exactly when HandlePending holds and
\* is the one step that ends it, so weak fairness of LoopHandle is
\* []<>~HandlePending.
SpecDelivery ==
    /\ InitDelivery /\ [][NextDelivery]_vars
    /\ WF_vars(ReadLoopReads) /\ []<>~HandlePending
    /\ WF_vars(DeviceWrite) /\ WF_vars(HostRecv)

\* The n-th text has been written to the line; the host has been handed
\* its packet.
TextSent(n) == \E w \in DOMAIN io.wrote : io.wrote[w].id = 10 + n
TextYielded(n) ==
    \E t \in DOMAIN taken :
        /\ taken[t].From = ToU32(TextCall(n).node)
        /\ taken[t].PortNum = ToU32(PortNumTextMessage)
        /\ taken[t].RawPayload = TextCall(n).text
        /\ taken[t].ID = ToU32(10 + n)
TextsSent == Cardinality({n \in 1..MaxTexts : TextSent(n)})

\* C31: with the driver connected and the configuration answered, every
\* text the simulator sends is eventually yielded by the driver's messages
\* channel as a Packet with that node as from, port TextMessage and that
\* text; k texts sent in sequence yield k packets.
C31_TextDelivered ==
    /\ \A n \in 1..MaxTexts : TextSent(n) ~> TextYielded(n)
    /\ [](Len(taken) + Len(drv.queue) <= TextsSent)
    /\ <>[](io.script = <<>> /\ Len(taken) = TextsSent)

C31_Witness ==
    /\ io.script = <<>>
    /\ Len(taken) = 2
    /\ TextYielded(1) /\ TextYielded(2)
    /\ taken[1].From = [hi |-> 10, lo |-> 180079837]
    /\ taken[1].RawPayload[1] = 72
    /\ DOMAIN rd.nodeDB = {ToU32(-1430532899)}

====
